---- MODULE Spec2Model ----
(***************************************************************************)
(* Identity provider of the agent SDK: the key store, the three           *)
(* attestation hashes kept on the shared Config object, the AuthVerifier   *)
(* registry and the transactions handed to the wallet.                     *)
(*                                                                         *)
(* Every tool (generateKeys, proveDid, proveOwner, setOwnership,           *)
(* proveReputation) is one action: the whole handler, run to its return or *)
(* to the error it throws.  What the collaborators answer (gas estimation, *)
(* the wallet's receipt, the registry after authentication, the signing    *)
(* backend) is drawn from small sets.                                      *)
(***************************************************************************)
EXTENDS Integers, Sequences, FiniteSets, TLC

VARIABLES
    keys,                              \* the key store's list, creation order
    txDidAuthAttestation,              \* Config.txDidAuthAttestation
    txOwnershipAttestationFromAgent,   \* Config.txOwnershipAttestationFromAgent
    txOwnershipAttestationFromOwner,   \* Config.txOwnershipAttestationFromOwner
    blockchainConfig,                  \* Config.blockchainConfig is present
    seed,                              \* Config.seed is present
    idByAddress,                       \* AuthVerifier: address -> authenticated id
    authMethodRegistered,              \* AuthVerifier.authMethodExists("ethIdentity")
    balance,                           \* balance of the agent's address
    txs,                               \* the requests handed to wallet.sendTransaction
    now,                               \* Math.floor(Date.now() / 1000)
    challenge,                         \* the challenge issued: args.challenge
    verified,                          \* the last call of verifyAgentResponse
    accepted,                          \* history: owner-auth tokens accepted
    reviews,                           \* the call of getReviewAttestationsInfo
    last,                              \* the last tool invocation and its outcome
    inflight                           \* the invocations suspended at an await

vars == <<keys, txDidAuthAttestation, txOwnershipAttestationFromAgent,
          txOwnershipAttestationFromOwner, blockchainConfig, seed, idByAddress,
          authMethodRegistered, balance, txs, now, challenge, verified, accepted, reviews, last,
          inflight>>

----------------------------------------------------------------------------
(* Bounds of the model *)

\* the most pages the attestation service announces
MaxPages == 3

\* the most review records on one page
MaxRecords == 2

MaxTxs == 3

(* Program constants *)

maxGasLimit == 10000000

validitySeconds == 300

windowSize == 60

----------------------------------------------------------------------------
(* Values *)

\* A field that holds no value (JavaScript undefined).
Undefined == "undefined"

\* JavaScript truthiness of an optional string: !f is true of undefined and "".
IsSet(f) == f \notin {Undefined, ""}

\* The key the provider derives from Config.seed (deterministic in the seed).
SeedKey == "key1"

\* wallet.getEthAddress(keyId)
EthAddressOf(k) == IF k = SeedKey THEN 41 ELSE 42

\* DID.idFromDID(buildDIDFromEthAddress(didType, ethAddress)).bigInt()
IdOf(addr) == 700 + addr

\* A key the store may already hold that was not derived from Config.seed.
OtherKey == "key2"

Addresses == {EthAddressOf(SeedKey), EthAddressOf(OtherKey)}

\* Config.ownerId, and an identity that is neither the agent nor the owner
OwnerId == IdOf(EthAddressOf(SeedKey)) + 100

StrangerId == OwnerId + 1

\* the hash the chain gives the n-th request handed to the wallet
TxHashOf(n) == <<"0xa1", "0xa2", "0xa3", "0xa4", "0xa5", "0xa6">>[n]

\* what wallet.estimateGas answers: it throws (<<>>) or estimates (<<gas>>)
GasEstimates == {<<>>, <<21000>>}

\* what wallet.sendTransaction answers: it throws, returns null, or returns a
\* receipt without or with logs
SendOutcomes == {"throw", "null", "nologs", "logs"}

\* the same for the submitResponse request, whose logs nothing reads
AuthOutcomes == {"throw", "null", "logs"}

\* the receipt of the request with hash h
ReceiptOf(out, h) ==
    [hash |-> h,
     logs |-> IF out = "logs"
              THEN <<[topics |-> <<"AttestationRecorded", h \o ":id">>]>>
              ELSE <<>>]

\* Attestations the owner recorded on chain, by transaction hash: what
\* provider.getTransaction, tx.wait and getAttestation answer for it.
OwnerTxs ==
    [h \in {"0xb1", "0xb2", "0xb3", "0xb4", "0xb5"} |->
        CASE h = "0xb1" -> [found |-> TRUE, logs |-> 1,
                            agentId |-> IdOf(EthAddressOf(SeedKey)),
                            agentAddress |-> EthAddressOf(SeedKey),
                            ownerId |-> OwnerId]
          [] h = "0xb2" -> [found |-> TRUE, logs |-> 1,
                            agentId |-> StrangerId,
                            agentAddress |-> EthAddressOf(SeedKey),
                            ownerId |-> OwnerId]
          [] h = "0xb3" -> [found |-> TRUE, logs |-> 1,
                            agentId |-> IdOf(EthAddressOf(SeedKey)),
                            agentAddress |-> EthAddressOf(SeedKey),
                            ownerId |-> StrangerId]
          [] h = "0xb4" -> [found |-> FALSE, logs |-> 0,
                            agentId |-> 0, agentAddress |-> 0, ownerId |-> 0]
          [] h = "0xb5" -> [found |-> TRUE, logs |-> 1,
                            agentId |-> IdOf(EthAddressOf(SeedKey)),
                            agentAddress |-> EthAddressOf(SeedKey),
                            ownerId |-> OwnerId]]

\* args.txHashAttestation: a hash, or null
TxHashArgs == DOMAIN OwnerTxs \cup {Undefined}

----------------------------------------------------------------------------
(* Challenges: func-utils/tools-helper.ts *)

\* (n).toString(2).length, for n >= 0
RECURSIVE BinaryLength(_)
BinaryLength(n) == IF n < 2 THEN 1 ELSE 1 + BinaryLength(n \div 2)

RECURSIVE Pow2(_)
Pow2(k) == IF k = 0 THEN 1 ELSE 2 * Pow2(k - 1)

\* bytesToInteger: the bytes read as one big-endian number
RECURSIVE bytesToInteger(_)
bytesToInteger(bytes) ==
    IF bytes = <<>>
    THEN 0
    ELSE bytesToInteger(SubSeq(bytes, 1, Len(bytes) - 1)) * 256
           + bytes[Len(bytes)]

\* Math.ceil(bitLength / 8)
ByteCount(bitLength) == (bitLength + 7) \div 8

\* what crypto.getRandomValues can put in the array
RandomBytes(count) == [1..count -> 0..255]

\* an empty range
ChallengeRange_Empty(min, max) == 0

\* const range = max - min
ChallengeRange(min, max) == max - min

\* the random number reduced into the range by a remainder instead of a redraw
generateChallenge_Modulo(t, drawn) ==
    [pc |-> "returned",
     value |-> (t - windowSize)
                 + (bytesToInteger(drawn)
                      % ChallengeRange(t - windowSize, t + windowSize))]

\* One pass of the loop of generateChallenge at time t on the random bytes
\* drawn: the value returned, or another pass.
generateChallenge(t, drawn) ==
    LET min == t - windowSize
        max == t + windowSize
        range == ChallengeRange(min, max)
        bitLength == BinaryLength(range - 1)
        shift == bitLength % 8
        bytes == IF shift # 0
                 THEN [drawn EXCEPT ![1] = drawn[1] % Pow2(shift)]
                 ELSE drawn
        result == bytesToInteger(bytes)
    IN  IF result >= range
        THEN [pc |-> "drawing", value |-> 0]
        ELSE [pc |-> "returned", value |-> min + result]

\* the size of the array generateChallenge fills at time t
ChallengeBytes(t) ==
    ByteCount(BinaryLength(ChallengeRange(t - windowSize, t + windowSize) - 1))

\* generateChallenge has not been called
NoChallenge == [pc |-> "idle", value |-> 0]

----------------------------------------------------------------------------
(* Review attestations: attestations/attestations.ts *)

\* getReviewAttestationsInfo has not been called.  requested: the page
\* numbers asked of the service, in order; answered: how many of them have
\* returned; served: the records the service has sent.
NoReviews ==
    [pc |-> "idle", requested |-> <<>>, answered |-> 0, totalPages |-> 0,
     served |-> 0, reviewCount |-> 0, totalStars |-> 0, averageStars |-> 0]

\* the stars of the review records of one page (res.data.data)
PageData == UNION {[1..n -> {1, 5}] : n \in 0..MaxRecords}

RECURSIVE SumOf(_)
SumOf(stars) ==
    IF stars = <<>> THEN 0 ELSE stars[1] + SumOf(Tail(stars))

\* the loop passing over the last page
MorePages_SkipLast(page, totalPages) == page + 1 < totalPages

\* if (totalPages > 1) for (let page = 2; page <= totalPages; page++)
MorePages(page, totalPages) == page + 1 <= totalPages

\* reviewCount > 0 ? totalStars / reviewCount : 0, in hundredths
AverageStars(totalStars, reviewCount) ==
    IF reviewCount > 0 THEN (totalStars * 100) \div reviewCount ELSE 0

\* the call up to its first await: no apiUrl, or the request for page 1
getReviewAttestationsInfo(apiUrl) ==
    IF ~apiUrl
    THEN [NoReviews EXCEPT !.pc = "failed"]
    ELSE [NoReviews EXCEPT !.pc = "waiting", !.requested = <<1>>]

\* the awaited page returns with data and, on page 1, totalPages: the records
\* are pushed, then the next page is requested or the result computed
pageReturned(r, data, totalPages) ==
    LET page == r.requested[Len(r.requested)]
        pages == IF page = 1 THEN totalPages ELSE r.totalPages
        got == [r EXCEPT !.answered = @ + 1, !.totalPages = pages,
                         !.served = @ + Len(data),
                         !.reviewCount = @ + Len(data),
                         !.totalStars = @ + SumOf(data)]
    IN  IF MorePages(page, pages)
        THEN [got EXCEPT !.requested = Append(@, page + 1)]
        ELSE [got EXCEPT !.pc = "returned",
                         !.averageStars =
                             AverageStars(got.totalStars, got.reviewCount)]

----------------------------------------------------------------------------
(* Key/identity resolver: func-utils/tools-helper.ts *)

\* the resolver taking the first key of the list
getLastKeyFromKMS_First(ks) ==
    IF Len(ks) = 0
    THEN [err |-> "No keys found for key type", keyId |-> Undefined]
    ELSE [err |-> "", keyId |-> ks[1]]

getLastKeyFromKMS(ks) ==
    IF Len(ks) = 0
    THEN [err |-> "No keys found for key type", keyId |-> Undefined]
    ELSE [err |-> "", keyId |-> ks[Len(ks)]]

getKeyInfoFromKMS(ks) ==
    LET k == getLastKeyFromKMS(ks)
    IN  IF k.err # ""
        THEN [err |-> k.err, keyId |-> Undefined, ethAddress |-> 0, id |-> 0]
        ELSE [err |-> "", keyId |-> k.keyId,
              ethAddress |-> EthAddressOf(k.keyId),
              id |-> IdOf(EthAddressOf(k.keyId))]

----------------------------------------------------------------------------
(* Attestation client: blockchain module *)

\* One call of a collaborator (the wallet, the AuthVerifier contract, the
\* provider) and what it answered, as a number: an id, a balance, a gas
\* estimate (0 when the estimation threw), 1 or 0 for true or false.
Called(name, result) == [call |-> name, result |-> result]

\* sendTransaction letting a failed estimation end the call
sendTransaction_PropagatesEstimation(method, schema, est, out, n) ==
    LET h == TxHashOf(n + 1)
        tx == [method |-> method, schema |-> schema, estimate |-> est,
               gasLimit |-> est[1], receipt |-> out, hash |-> h]
    IN  IF est = <<>>
        THEN [err |-> "wallet.estimateGas failed", sent |-> <<>>,
              calls |-> <<Called("estimateGas", 0)>>,
              txnHash |-> h, txnReceipt |-> ReceiptOf("null", h)]
        ELSE [err |-> CASE out = "throw" -> "wallet.sendTransaction failed"
                        [] out = "null" -> "No transaction created"
                        [] OTHER -> "",
              sent |-> <<tx>>,
              calls |-> <<Called("estimateGas", est[1]),
                          Called("sendTransaction", IF out \in {"throw", "null"}
                                                    THEN 0 ELSE 1)>>,
              txnHash |-> h,
              txnReceipt |-> ReceiptOf(out, h)]

\* sendTransaction: estimate the gas, fall back to maxGasLimit when the
\* estimation throws, hand the request to the wallet, require a receipt.
\* est and out are the wallet's answers; n is the number of requests handed
\* to the wallet before this one.
sendTransaction(method, schema, est, out, n) ==
    LET gasLimit == IF est = <<>> THEN maxGasLimit ELSE est[1]
        h == TxHashOf(n + 1)
        tx == [method |-> method, schema |-> schema, estimate |-> est,
               gasLimit |-> gasLimit, receipt |-> out, hash |-> h]
    IN  [err |-> CASE out = "throw" -> "wallet.sendTransaction failed"
                   [] out = "null" -> "No transaction created"
                   [] OTHER -> "",
         sent |-> <<tx>>,
         calls |-> <<Called("estimateGas", IF est = <<>> THEN 0 ELSE est[1]),
                     Called("sendTransaction", IF out \in {"throw", "null"}
                                               THEN 0 ELSE 1)>>,
         txnHash |-> h,
         txnReceipt |-> ReceiptOf(out, h)]

\* what getIdByAddress answers after a confirmed submitResponse of agentId:
\* the id the proof was for, still zero, or another id the verifier has
\* mapped the address to (as it can have before the first read)
RegistryAfterAuth(agentId) == {0, agentId, StrangerId}

\* every way the wallet can answer one request
WalletAnswers(outs) == [est : GasEstimates, out : outs]

\* if (currentUserId === 0n) ... else ...
Unauthenticated(currentUserId) == currentUserId = 0

\* the second read of the registry, never found to be zero
StillUnauthenticated_Never(currentUserId) == FALSE

\* after the submitResponse request: if (currentUserId === 0n) throw
StillUnauthenticated(currentUserId) == currentUserId = 0

\* the registered methods, never found to lack ethIdentity
AuthMethodMissing_Never(methodExists) == FALSE

\* if (!authMethodExists) throw
AuthMethodMissing(methodExists) == ~methodExists

\* the mapped id, never found to differ from the agent's
IdMismatch_Never(currentUserId, agentId) == FALSE

\* if (currentUserId.toString() !== agentId.toString()) throw
IdMismatch(currentUserId, agentId) == currentUserId # agentId

\* authenticateToAttestationRegistry: the outcome, given the wallet's answer w
\* to the submitResponse request and the id the registry maps the address to
\* once that request is confirmed
authenticateWith(reg, methodExists, agentId, agentAddress, w, mapped, n) ==
    LET currentUserId == reg[agentAddress]
        read == <<Called("getIdByAddress", currentUserId)>>
        asked == read \o <<Called("authMethodExists",
                                  IF methodExists THEN 1 ELSE 0)>>
        st == sendTransaction("submitResponse", "", w.est, w.out, n)
        reg2 == [reg EXCEPT ![agentAddress] = mapped]
        reread == asked \o st.calls
                        \o <<Called("getIdByAddress", reg2[agentAddress])>>
    IN  IF Unauthenticated(currentUserId)
        THEN IF AuthMethodMissing(methodExists)
             THEN [err |-> "Could not authenticate: ethIdentity auth method not found",
                   id |-> 0, sent |-> <<>>, calls |-> asked, reg |-> reg]
             ELSE IF st.err # ""
             THEN [err |-> "Could not authenticate: " \o st.err,
                   id |-> 0, sent |-> st.sent, calls |-> asked \o st.calls,
                   reg |-> reg]
             ELSE IF StillUnauthenticated(reg2[agentAddress])
             THEN [err |-> "Could not authenticate: user ID is still 0",
                   id |-> 0, sent |-> st.sent, calls |-> reread, reg |-> reg2]
             ELSE [err |-> "", id |-> reg2[agentAddress],
                   sent |-> st.sent, calls |-> reread, reg |-> reg2]
        ELSE IF IdMismatch(currentUserId, agentId)
             THEN [err |-> "Authenticated user ID does not match the agent ID",
                   id |-> 0, sent |-> <<>>, calls |-> read, reg |-> reg]
             ELSE [err |-> "", id |-> currentUserId, sent |-> <<>>,
                   calls |-> read, reg |-> reg]

\* the outcomes authenticateToAttestationRegistry can have
authenticateToAttestationRegistry(reg, methodExists, agentId, agentAddress, n) ==
    {authenticateWith(reg, methodExists, agentId, agentAddress, w, mapped, n) :
        w \in WalletAnswers(AuthOutcomes), mapped \in RegistryAfterAuth(agentId)}

\* if (!txnReceipt.logs || txnReceipt.logs.length === 0) throw
NoLogs(txnReceipt) == Len(txnReceipt.logs) = 0

\* sendAttestation returning the attestation id where the hash belongs
AttestationResult_IdAsHash(st) ==
    [attestationId |-> st.txnReceipt.logs[1].topics[2],
     txHash |-> st.txnReceipt.logs[1].topics[2]]

\* return { attestationId, txHash: txnHash }
AttestationResult(st) ==
    [attestationId |-> st.txnReceipt.logs[1].topics[2], txHash |-> st.txnHash]

\* sendAttestation handing the request to the wallet a second time when the
\* first submission failed
sendAttestationWith_Resubmits(ks, schema, w, n) ==
    LET k == getLastKeyFromKMS(ks)
        st == sendTransaction("recordAttestation", schema, w.est, w.out, n)
        again == sendTransaction("recordAttestation", schema, w.est, "logs", n + 1)
        none == [err |-> "", sent |-> <<>>, calls |-> <<>>,
                 attestationId |-> Undefined, txHash |-> Undefined]
    IN  IF k.err # ""
        THEN [none EXCEPT !.err = k.err]
        ELSE IF st.err # ""
        THEN [err |-> "", sent |-> st.sent \o again.sent,
              calls |-> st.calls \o again.calls,
              attestationId |-> AttestationResult(again).attestationId,
              txHash |-> AttestationResult(again).txHash]
        ELSE IF NoLogs(st.txnReceipt)
        THEN [none EXCEPT !.err = "No logs found for Attestation transaction",
                          !.sent = st.sent, !.calls = st.calls]
        ELSE [err |-> "", sent |-> st.sent, calls |-> st.calls,
              attestationId |-> AttestationResult(st).attestationId,
              txHash |-> AttestationResult(st).txHash]

\* sendAttestation returning whatever receipt the wallet gave, logs or not
sendAttestationWith_IgnoresLogs(ks, schema, w, n) ==
    LET k == getLastKeyFromKMS(ks)
        st == sendTransaction("recordAttestation", schema, w.est, w.out, n)
        none == [err |-> "", sent |-> <<>>, calls |-> <<>>,
                 attestationId |-> Undefined, txHash |-> Undefined]
    IN  IF k.err # ""
        THEN [none EXCEPT !.err = k.err]
        ELSE IF st.err # ""
        THEN [none EXCEPT !.err = st.err, !.sent = st.sent, !.calls = st.calls]
        ELSE [err |-> "", sent |-> st.sent, calls |-> st.calls,
              attestationId |-> IF NoLogs(st.txnReceipt)
                                THEN ""
                                ELSE AttestationResult(st).attestationId,
              txHash |-> st.txnHash]

\* sendAttestation: record the attestation, require a receipt with logs, take
\* the attestation id from the first log's second topic; w is the wallet's
\* answer to the recordAttestation request
sendAttestationWith(ks, schema, w, n) ==
    LET k == getLastKeyFromKMS(ks)
        st == sendTransaction("recordAttestation", schema, w.est, w.out, n)
        none == [err |-> "", sent |-> <<>>, calls |-> <<>>,
                 attestationId |-> Undefined, txHash |-> Undefined]
    IN  IF k.err # ""
        THEN [none EXCEPT !.err = k.err]
        ELSE IF st.err # ""
        THEN [none EXCEPT !.err = st.err, !.sent = st.sent, !.calls = st.calls]
        ELSE IF NoLogs(st.txnReceipt)
        THEN [none EXCEPT !.err = "No logs found for Attestation transaction",
                          !.sent = st.sent, !.calls = st.calls]
        ELSE [err |-> "", sent |-> st.sent, calls |-> st.calls,
              attestationId |-> AttestationResult(st).attestationId,
              txHash |-> AttestationResult(st).txHash]

\* the outcomes sendAttestation can have
sendAttestation(ks, schema, n) ==
    {sendAttestationWith(ks, schema, w, n) : w \in WalletAnswers(SendOutcomes)}

\* the attestation recorded whatever the authentication came to
AfterAuthentication_Regardless(ks, schema, auth, n) ==
    {[err |-> sa.err, sent |-> auth.sent \o sa.sent,
      calls |-> auth.calls \o sa.calls, reg |-> auth.reg,
      authId |-> auth.id,
      attestationId |-> sa.attestationId, txHash |-> sa.txHash] :
        sa \in sendAttestation(ks, schema, n + Len(auth.sent))}

\* what follows an authentication that ended as auth: the error it threw, or
\* the attestation of the given schema
AfterAuthentication(ks, schema, auth, n) ==
    LET failed == [err |-> auth.err, sent |-> auth.sent, calls |-> auth.calls,
                   reg |-> auth.reg, authId |-> auth.id,
                   attestationId |-> Undefined, txHash |-> Undefined]
    IN  IF auth.err # ""
        THEN {failed}
        ELSE IF auth.id = 0
        THEN {[failed EXCEPT !.err =
                 "User authentication of agent to attestation registry failed."]}
        ELSE {[err |-> sa.err, sent |-> auth.sent \o sa.sent,
               calls |-> auth.calls \o sa.calls, reg |-> auth.reg,
               authId |-> auth.id,
               attestationId |-> sa.attestationId, txHash |-> sa.txHash] :
                 sa \in sendAttestation(ks, schema, n + Len(auth.sent))}

\* the outcomes sendDidAuthAttestation can have
sendDidAuthAttestation(ks, reg, methodExists, didAuthAttestation, n) ==
    UNION {AfterAuthentication(ks, "agentDidAuth", auth, n) :
             auth \in authenticateToAttestationRegistry(reg, methodExists,
                          didAuthAttestation.agentId,
                          didAuthAttestation.agentAddress, n)}

\* the outcomes sendOwnershipAttestation can have
sendOwnershipAttestation(ks, reg, methodExists, ownershipAttestation, n) ==
    UNION {AfterAuthentication(ks, "agentOwnership", auth, n) :
             auth \in authenticateToAttestationRegistry(reg, methodExists,
                          ownershipAttestation.agentId,
                          ownershipAttestation.agentAddress, n)}

\* getOwnershipAttestationFromOwner: read-only
getOwnershipAttestationFromOwner(txHash) ==
    LET t == OwnerTxs[txHash]
        none == [err |-> "", agentId |-> 0, agentAddress |-> 0, ownerId |-> 0]
    IN  IF ~t.found
        THEN [none EXCEPT !.err = "Ownership transaction not found"]
        ELSE IF t.logs = 0
        THEN [none EXCEPT !.err = "No logs found for Ownership transaction"]
        ELSE [err |-> "", agentId |-> t.agentId,
              agentAddress |-> t.agentAddress, ownerId |-> t.ownerId]

----------------------------------------------------------------------------
(* Owner authentication: func-utils/tools-helper.ts *)

\* An owner-auth token as decodeAuthToken sees it: whether the signature
\* recovers the owner's address, and the decoded body.  The body's challenge
\* is a JSON number, a JSON string of digits, or missing.
OwnerTokens ==
    {[sigOk |-> TRUE,  from |-> TRUE,  repr |-> "number",  challenge |-> 1000],
     [sigOk |-> TRUE,  from |-> TRUE,  repr |-> "string",  challenge |-> 1000],
     [sigOk |-> TRUE,  from |-> TRUE,  repr |-> "missing", challenge |-> 0],
     [sigOk |-> TRUE,  from |-> FALSE, repr |-> "number",  challenge |-> 1000],
     [sigOk |-> FALSE, from |-> TRUE,  repr |-> "number",  challenge |-> 1000]}

\* decodedPayload.challenge + 300 in JavaScript: a sum for a number, the
\* concatenation of the digits with "300" for a string
PlusValidity(tok) ==
    IF tok.repr = "string"
    THEN tok.challenge * 1000 + validitySeconds
    ELSE tok.challenge + validitySeconds

\* "" when the token is accepted at time t, the error otherwise
checkOwnerAuthToken(tok, t) ==
    IF ~tok.sigOk THEN "invalid signature"
    ELSE IF ~tok.from THEN "Missing required field: 'from' in decoded payload"
    ELSE IF tok.repr = "missing" \/ (tok.repr = "number" /\ tok.challenge = 0)
    THEN "Missing required field: 'challenge' in decoded payload"
    ELSE IF PlusValidity(tok) < t THEN "Challenge is expired"
    ELSE ""

----------------------------------------------------------------------------
(* The tools of IdentityProvider: blockchain/wallet.ts.  Each operator is the
   handler run on the current state: the set of outcomes it can have, each
   the state the handler leaves and what it returns or throws. *)

\* The JWS body the agent signs and the verifier rebuilds; the challenge is in
\* it as a string.
NoBody == [from |-> 0, artifacts |-> <<>>, challenge |-> ""]

NoHeader == [alg |-> "", kid |-> 0]

\* kms.sign with the key of address signer over the header and body of a JWS
Signature(signer, header, body) ==
    [signer |-> signer, over |-> [header |-> header, body |-> body]]

NoSignature == Signature(0, NoHeader, NoBody)

\* A JWS, split at its dots: jwsParts[0], jwsParts[1], jwsParts[2].
NoToken == [header |-> NoHeader, payload |-> NoBody, signature |-> NoSignature]

\* The payload a tool returns.  A DID is written as the id it is built from,
\* an address as its number.
NoPayload ==
    [did |-> 0, ethAddress |-> 0, challenge |-> 0,
     txHash |-> Undefined, txHashOwnerAttestation |-> Undefined,
     txHashAgentAttestation |-> Undefined, signedDidAuthToken |-> NoToken,
     signedResponseToken |-> NoToken]

\* verifyAgentResponse has not been called.  changed names what was changed in
\* the payload on its way to the verifier: "" (nothing), "signature",
\* "challenge", "did" or "field" (another signed field).
NotVerified == [called |-> FALSE, changed |-> "", err |-> ""]

\* const { signedResponseToken, ...parsedResponsePayload } = payload
parsedResponsePayload(payload) ==
    [did |-> payload.did, ethAddress |-> payload.ethAddress,
     challenge |-> payload.challenge, txHash |-> payload.txHash,
     txHashOwnerAttestation |-> payload.txHashOwnerAttestation,
     txHashAgentAttestation |-> payload.txHashAgentAttestation,
     signedDidAuthToken |-> payload.signedDidAuthToken]

\* `0x${bytesToHex(byteEncoder.encode(JSON.stringify(fields)))}`: one hex
\* string per value of the fields, and one value per hex string
Artifacts(fields) == <<"0x", fields>>

\* `${payload.challenge}` in the template of the signed body
ChallengeInTemplate(c) == ToString(c)

\* packDIDChallenge: the body {from, challenge} with the challenge as a string,
\* signed with the key keyId; the whole token is returned
packDIDChallenge(keyId, payload) ==
    LET body == [from |-> payload.did, artifacts |-> <<>>,
                 challenge |-> ChallengeInTemplate(payload.challenge)]
        header == [alg |-> "ES256K-R", kid |-> payload.did]
    IN  [header |-> header, payload |-> body,
         signature |-> Signature(EthAddressOf(keyId), header, body)]

\* packResponseArtifactsChallenge: the body built from the payload, signed with
\* the key keyId, returned in detached form (header, empty payload, signature)
packResponseArtifactsChallenge(keyId, payload) ==
    LET body == [from |-> payload.did,
                 artifacts |-> Artifacts(payload),
                 challenge |-> ChallengeInTemplate(payload.challenge)]
        header == [alg |-> "ES256K-R", kid |-> payload.did]
        \* jws.pack: header "." body "." signature
        jwsParts == [header |-> header, payload |-> body,
                     signature |-> Signature(EthAddressOf(keyId), header, body)]
    IN  \* jwsParts[0] + ".." + jwsParts[2]
        [header |-> jwsParts.header, payload |-> NoBody,
         signature |-> jwsParts.signature]

\* no attestation flow has returned
NotAttested == [attestationId |-> Undefined, txHash |-> Undefined]

\* the handler has not called the resolver
NotResolved ==
    [err |-> "not called", keyId |-> Undefined, ethAddress |-> 0, id |-> 0]

\* the handler has touched nothing yet: it is handed the provider's one
\* Config object and the state of the chain
Untouched ==
    [err |-> "", keys |-> keys, resolved |-> NotResolved,
     did |-> txDidAuthAttestation,
     agent |-> txOwnershipAttestationFromAgent,
     owner |-> txOwnershipAttestationFromOwner,
     reg |-> idByAddress, sent |-> <<>>, calls |-> <<>>, authId |-> 0,
     attested |-> NotAttested, created |-> FALSE, payload |-> NoPayload]

\* the handler has called getKeyInfoFromKMS, and nothing else yet
Resolved == [Untouched EXCEPT !.resolved = getKeyInfoFromKMS(keys)]

\* the handler throws e, leaving state o
Throw(o, e) == [o EXCEPT !.err = e, !.payload = NoPayload]

\* packResponseArtifactsChallenge at the end of a handler, then the return:
\* kms.sign signs, or throws
SignAndReturn(o) ==
    LET payload == [o.payload EXCEPT !.did = o.resolved.id,
                                     !.ethAddress = o.resolved.ethAddress,
                                     !.challenge = challenge.value]
        signedResponseArtifactsToken ==
            packResponseArtifactsChallenge(o.resolved.keyId,
                                           parsedResponsePayload(payload))
    IN  {[o EXCEPT !.payload =
             [payload EXCEPT !.signedResponseToken = signedResponseArtifactsToken]],
         Throw(o, "kms.sign failed")}

\* generateKeys forgetting one of the three assignments
ResetTracker_ForgetsOwner(o) ==
    [o EXCEPT !.agent = Undefined, !.did = Undefined]

\* the three assignments of undefined in generateKeys
ResetTracker(o) ==
    [o EXCEPT !.agent = Undefined, !.owner = Undefined, !.did = Undefined]

\* kms.createKeyFromSeed: the key derived from the seed enters the store under
\* the alias derived from it; deriving it again stores the same key under the
\* same alias
createKeyFromSeed(ks) ==
    IF \E i \in 1..Len(ks) : ks[i] = SeedKey THEN ks ELSE Append(ks, SeedKey)

\* generateKeys never finding a key in the list
KeyExists_Never(existingKeys) == FALSE

\* const keyExists = existingKeys.length !== 0
KeyExists(existingKeys) == Len(existingKeys) # 0

\* generateKeys clearing the tracker before it checks the owner's token
generateKeys_ResetsFirst(tok) ==
    LET auth == checkOwnerAuthToken(tok, now)
        keyExists == KeyExists(keys)
        ks == IF keyExists THEN keys ELSE createKeyFromSeed(keys)
        ki == getKeyInfoFromKMS(ks)
        made == [Untouched EXCEPT !.keys = ks, !.created = ~keyExists,
                                  !.resolved = ki]
    IN  IF auth # ""
        THEN {Throw(ResetTracker(Untouched), auth)}
        ELSE IF ~keyExists /\ ~seed
        THEN {Throw(Untouched, "Seed is required to generate new key")}
        ELSE IF ki.err # ""
        THEN {Throw(made, ki.err)}
        ELSE SignAndReturn(ResetTracker(made))

\* tok: the owner-auth token of the call
generateKeys(tok) ==
    LET auth == checkOwnerAuthToken(tok, now)
        keyExists == KeyExists(keys)
        ks == IF keyExists THEN keys ELSE createKeyFromSeed(keys)
        ki == getKeyInfoFromKMS(ks)
        made == [Untouched EXCEPT !.keys = ks, !.created = ~keyExists,
                                  !.resolved = ki]
    IN  IF auth # ""
        THEN {Throw(Untouched, auth)}
        ELSE IF ~keyExists /\ ~seed
        THEN {Throw(Untouched, "Seed is required to generate new key")}
        ELSE IF ki.err # ""
        THEN {Throw(made, ki.err)}
        ELSE SignAndReturn(ResetTracker(made))

\* the balance, never found to be zero
InsufficientBalance_Never(b) == FALSE

\* if (balance === 0n) throw
InsufficientBalance(b) == b = 0

\* proveDid without the check of txDidAuthAttestation
SendsDidAuthAttestation_NoTrackerCheck == blockchainConfig

\* the condition under which proveDid sends the DID-auth attestation
\* (ethAddress is never empty)
SendsDidAuthAttestation ==
    blockchainConfig /\ ~IsSet(txDidAuthAttestation)

\* the handler's state once the attestation flow has ended as result
AfterFlow(o, result) ==
    [o EXCEPT !.sent = result.sent, !.reg = result.reg,
              !.authId = result.authId,
              !.attested = [attestationId |-> result.attestationId,
                            txHash |-> result.txHash],
              !.calls = o.calls \o result.calls]

proveDid ==
    LET ki == getKeyInfoFromKMS(keys)
        didAuthAttestation == [agentId |-> ki.id, agentAddress |-> ki.ethAddress]
        signedDidAuthToken ==
            packDIDChallenge(ki.keyId, [did |-> ki.id,
                                        challenge |-> challenge.value])
        packed == [Resolved EXCEPT
                      !.payload.signedDidAuthToken = signedDidAuthToken]
        asked == [packed EXCEPT !.calls = <<Called("getBalance", balance)>>]
        after(result) ==
            IF result.err # ""
            THEN {Throw(AfterFlow(asked, result), result.err)}
            ELSE SignAndReturn([AfterFlow(asked, result) EXCEPT
                                   !.did = result.txHash,
                                   !.payload.txHash = result.txHash])
    IN  IF ki.err # ""
        THEN {Throw(Resolved, ki.err)}
        ELSE \* packDIDChallenge: kms.sign throws, or signs
             {Throw(Resolved, "kms.sign failed")} \cup
             (IF SendsDidAuthAttestation
              THEN IF InsufficientBalance(balance)
                   THEN {Throw(asked, "Insufficient balance")}
                   ELSE UNION {after(result) :
                          result \in sendDidAuthAttestation(keys, idByAddress,
                                        authMethodRegistered, didAuthAttestation,
                                        Len(txs))}
              ELSE SignAndReturn(packed))

\* x ?? "": undefined becomes the empty string
OrEmpty(x) == IF x = Undefined THEN "" ELSE x

\* the condition under which proveOwner sends the ownership attestation
SendsOwnershipAttestation_Always == TRUE

SendsOwnershipAttestation == ~IsSet(txOwnershipAttestationFromAgent)

proveOwner ==
    LET ki == getKeyInfoFromKMS(keys)
        agentOwnershipAttestation ==
            [agentId |-> ki.id, agentAddress |-> ki.ethAddress,
             ownerId |-> OwnerId]
        asked == [Resolved EXCEPT !.calls = <<Called("getBalance", balance)>>]
        respond(o) ==
            SignAndReturn(
                [o EXCEPT !.payload.txHashOwnerAttestation = OrEmpty(o.owner),
                          !.payload.txHashAgentAttestation = OrEmpty(o.agent)])
        after(result) ==
            IF result.err # ""
            THEN {Throw(AfterFlow(asked, result), result.err)}
            ELSE respond([AfterFlow(asked, result) EXCEPT
                             !.agent = result.txHash])
    IN  IF ki.err # ""
        THEN {Throw(Resolved, ki.err)}
        ELSE IF ~blockchainConfig
        THEN {Throw(Resolved, "Missing blockchain config")}
        ELSE IF SendsOwnershipAttestation
        THEN IF InsufficientBalance(balance)
             THEN {Throw(asked, "Insufficient balance")}
             ELSE UNION {after(result) :
                    result \in sendOwnershipAttestation(keys, idByAddress,
                                  authMethodRegistered,
                                  agentOwnershipAttestation, Len(txs))}
        ELSE respond(Resolved)

\* setOwnership without the comparison of ownerId
setOwnership_OwnerUnchecked(txHashAttestation) ==
    LET ki == getKeyInfoFromKMS(keys)
        ownershipAttestation == getOwnershipAttestationFromOwner(txHashAttestation)
        stored == [Resolved EXCEPT !.owner = txHashAttestation]
    IN  IF ki.err # ""
        THEN {Throw(Resolved, ki.err)}
        ELSE IF ~blockchainConfig \/ ~IsSet(txHashAttestation)
        THEN {Throw(Resolved, "Missing blockchain config or txHashAttestation")}
        ELSE IF ownershipAttestation.err # ""
        THEN {Throw(Resolved, ownershipAttestation.err)}
        ELSE IF ownershipAttestation.agentId = 0
                \/ ownershipAttestation.agentAddress = 0
                \/ ownershipAttestation.ownerId = 0
        THEN {Throw(stored,
                 "Missing required fields to verify ownership attestation.")}
        ELSE IF ownershipAttestation.agentId # ki.id
        THEN {Throw(stored, "AgentId does not match")}
        ELSE SignAndReturn(stored)

setOwnership(txHashAttestation) ==
    LET ki == getKeyInfoFromKMS(keys)
        ownershipAttestation == getOwnershipAttestationFromOwner(txHashAttestation)
        stored == [Resolved EXCEPT !.owner = txHashAttestation]
    IN  IF ki.err # ""
        THEN {Throw(Resolved, ki.err)}
        ELSE IF ~blockchainConfig \/ ~IsSet(txHashAttestation)
        THEN {Throw(Resolved, "Missing blockchain config or txHashAttestation")}
        ELSE IF ownershipAttestation.err # ""
        THEN {Throw(Resolved, ownershipAttestation.err)}
        ELSE IF ownershipAttestation.agentId = 0
                \/ ownershipAttestation.agentAddress = 0
                \/ ownershipAttestation.ownerId = 0
        THEN {Throw(stored,
                 "Missing required fields to verify ownership attestation.")}
        ELSE IF ownershipAttestation.agentId # ki.id
        THEN {Throw(stored, "AgentId does not match")}
        ELSE IF ownershipAttestation.ownerId # OwnerId
        THEN {Throw(stored, "OwnerId does not match")}
        ELSE SignAndReturn(stored)

\* proveReputation clearing the tracker as generateKeys does
proveReputation_ClearsTracker(reviewsOk) ==
    LET ki == getKeyInfoFromKMS(keys)
    IN  IF ki.err # ""
        THEN {Throw(Resolved, ki.err)}
        ELSE IF ~blockchainConfig
        THEN {Throw(Resolved, "Missing reviewSchemaId in blockchain config")}
        ELSE IF ~reviewsOk
        THEN {Throw(Resolved, "review attestations request failed")}
        ELSE SignAndReturn(ResetTracker(Resolved))

\* reviewsOk: getReviewAttestationsInfo returned
proveReputation(reviewsOk) ==
    LET ki == getKeyInfoFromKMS(keys)
    IN  IF ki.err # ""
        THEN {Throw(Resolved, ki.err)}
        ELSE IF ~blockchainConfig
        THEN {Throw(Resolved, "Missing reviewSchemaId in blockchain config")}
        ELSE IF ~reviewsOk
        THEN {Throw(Resolved, "review attestations request failed")}
        ELSE SignAndReturn(Resolved)

----------------------------------------------------------------------------
(* The state machine *)

AgentId == IdOf(EthAddressOf(SeedKey))

\* The invocations that can be in flight at once when the caller does not
\* serialize them.
Invocations == {1, 2}

\* an invocation that has not started, or has returned or thrown; replaced is
\* what txDidAuthAttestation held when the sending block of proveDid resumed
Idle ==
    [op |-> "none", pc |-> "idle", err |-> "", existingKeys |-> <<>>,
     created |-> FALSE, sends |-> FALSE, sent |-> <<>>, replaced |-> Undefined,
     resolved |-> NotResolved]

Init ==
    /\ keys = <<>>
    /\ txDidAuthAttestation = Undefined
    /\ txOwnershipAttestationFromAgent = Undefined
    /\ txOwnershipAttestationFromOwner = Undefined
    /\ blockchainConfig \in BOOLEAN
    /\ seed \in BOOLEAN
    /\ idByAddress \in {reg \in [Addresses -> {0, AgentId, StrangerId}] :
                           reg[EthAddressOf(OtherKey)] = 0}
    /\ authMethodRegistered \in BOOLEAN
    \* an address mapped to the agent's id was mapped through ethIdentity
    /\ idByAddress[EthAddressOf(SeedKey)] = AgentId => authMethodRegistered
    /\ balance \in {0, 1}
    /\ txs = <<>>
    /\ now = 1000
    /\ last = [op |-> "none", err |-> "", arg |-> Undefined,
               preDid |-> Undefined, preAgent |-> Undefined,
               preOwner |-> Undefined, preKeys |-> <<>>, preTxs |-> 0,
               preBalance |-> 0,
               sent |-> <<>>, calls |-> <<>>, authId |-> 0,
               attested |-> NotAttested, resolved |-> NotResolved,
               created |-> FALSE, payload |-> NoPayload]
    /\ inflight = [p \in Invocations |-> Idle]
    /\ challenge = NoChallenge
    /\ verified = NotVerified
    /\ accepted = {}
    /\ reviews = NoReviews

\* what the chain keeps of a request: its method and schema, its hash, and
\* whether it was confirmed with a receipt holding at least one log
Chained(tx) ==
    [method |-> tx.method, schema |-> tx.schema, hash |-> tx.hash,
     confirmed |-> Len(ReceiptOf(tx.receipt, tx.hash).logs) > 0]

\* the handler's outcome o becomes the state; arg is the tool's argument.  No
\* verifier has seen the new response yet.
Apply(op, arg, o) ==
    /\ Len(txs) + Len(o.sent) <= MaxTxs
    /\ keys' = o.keys
    /\ txDidAuthAttestation' = o.did
    /\ txOwnershipAttestationFromAgent' = o.agent
    /\ txOwnershipAttestationFromOwner' = o.owner
    /\ idByAddress' = o.reg
    /\ txs' = txs \o [i \in 1..Len(o.sent) |-> Chained(o.sent[i])]
    /\ last' = [op |-> op, err |-> o.err, arg |-> arg,
                preDid |-> txDidAuthAttestation,
                preAgent |-> txOwnershipAttestationFromAgent,
                preOwner |-> txOwnershipAttestationFromOwner,
                preKeys |-> keys, preTxs |-> Len(txs),
                preBalance |-> balance,
                sent |-> o.sent, calls |-> o.calls, authId |-> o.authId,
                attested |-> o.attested, resolved |-> o.resolved,
                created |-> o.created, payload |-> o.payload]
    /\ verified' = NotVerified
    /\ UNCHANGED <<blockchainConfig, seed, authMethodRegistered, balance, now,
                   challenge, reviews, inflight>>

\* a tool invocation of which the record of accepted tokens takes no note
Commit(op, arg, o) ==
    /\ Apply(op, arg, o)
    /\ UNCHANGED accepted

GenerateKeys ==
    \E tok \in OwnerTokens :
        \E o \in generateKeys(tok) : Commit("generateKeys", Undefined, o)

ProveDid ==
    \E o \in proveDid : Commit("proveDid", Undefined, o)

ProveOwner ==
    \E o \in proveOwner : Commit("proveOwner", Undefined, o)

SetOwnership ==
    \E h \in TxHashArgs :
        \E o \in setOwnership(h) : Commit("setOwnership", h, o)

ProveReputation ==
    \E reviewsOk \in BOOLEAN :
        \E o \in proveReputation(reviewsOk) : Commit("proveReputation", Undefined, o)

\* the agent's address is funded, or its funds are spent
BalanceChanges ==
    /\ balance' \in {0, 1} \ {balance}
    /\ UNCHANGED <<keys, txDidAuthAttestation, txOwnershipAttestationFromAgent,
                   txOwnershipAttestationFromOwner, blockchainConfig, seed,
                   idByAddress, authMethodRegistered, txs, now, challenge, verified, accepted, reviews, last,
                   inflight>>

Next ==
    \/ GenerateKeys
    \/ ProveDid
    \/ ProveOwner
    \/ SetOwnership
    \/ ProveReputation
    \/ BalanceChanges

Spec == Init /\ [][Next]_vars

\* The key stores the provider can be constructed on: empty, or holding keys
\* created before, in creation order.
KeyStores ==
    {<<>>, <<SeedKey>>, <<OtherKey>>, <<SeedKey, OtherKey>>, <<OtherKey, SeedKey>>}

\* the provider constructed on any of these key stores, with a blockchain
\* config and a seed, nobody authenticated yet
InitStores ==
    /\ keys \in KeyStores
    /\ txDidAuthAttestation = Undefined
    /\ txOwnershipAttestationFromAgent = Undefined
    /\ txOwnershipAttestationFromOwner = Undefined
    /\ blockchainConfig = TRUE
    /\ seed = TRUE
    /\ idByAddress = [a \in Addresses |-> 0]
    /\ authMethodRegistered = TRUE
    /\ balance \in {0, 1}
    /\ txs = <<>>
    /\ now = 1000
    /\ last = [op |-> "none", err |-> "", arg |-> Undefined,
               preDid |-> Undefined, preAgent |-> Undefined,
               preOwner |-> Undefined, preKeys |-> <<>>, preTxs |-> 0,
               preBalance |-> 0,
               sent |-> <<>>, calls |-> <<>>, authId |-> 0,
               attested |-> NotAttested, resolved |-> NotResolved,
               created |-> FALSE, payload |-> NoPayload]
    /\ inflight = [p \in Invocations |-> Idle]
    /\ challenge = NoChallenge
    /\ verified = NotVerified
    /\ accepted = {}
    /\ reviews = NoReviews

\* the tools, on an address whose funds do not change
NextStores ==
    \/ GenerateKeys
    \/ ProveDid
    \/ ProveOwner
    \/ SetOwnership
    \/ ProveReputation

SpecStores == InitStores /\ [][NextStores]_vars

\* the invocations between one generateKeys call and the next
NextProofs ==
    \/ ProveDid
    \/ ProveOwner
    \/ SetOwnership
    \/ ProveReputation
    \/ BalanceChanges

SpecProofs == InitStores /\ [][NextProofs]_vars

----------------------------------------------------------------------------
(* The verifier's side: challenges *)

\* the times at which challenges are generated
Times == {1000, 1700000000}

\* one pass of the loop of generateChallenge
GenerateChallenge ==
    /\ \E drawn \in RandomBytes(ChallengeBytes(now)) :
         challenge' = generateChallenge(now, drawn)
    /\ UNCHANGED <<keys, txDidAuthAttestation, txOwnershipAttestationFromAgent,
                   txOwnershipAttestationFromOwner, blockchainConfig, seed,
                   idByAddress, authMethodRegistered, balance, txs, now, last,
                   inflight, verified, accepted, reviews>>

InitChallenge ==
    /\ keys = <<>>
    /\ txDidAuthAttestation = Undefined
    /\ txOwnershipAttestationFromAgent = Undefined
    /\ txOwnershipAttestationFromOwner = Undefined
    /\ blockchainConfig = TRUE
    /\ seed = TRUE
    /\ idByAddress = [a \in Addresses |-> 0]
    /\ authMethodRegistered = TRUE
    /\ balance = 1
    /\ txs = <<>>
    /\ now \in Times
    /\ last = [op |-> "none", err |-> "", arg |-> Undefined,
               preDid |-> Undefined, preAgent |-> Undefined,
               preOwner |-> Undefined, preKeys |-> <<>>, preTxs |-> 0,
               preBalance |-> 0,
               sent |-> <<>>, calls |-> <<>>, authId |-> 0,
               attested |-> NotAttested, resolved |-> NotResolved,
               created |-> FALSE, payload |-> NoPayload]
    /\ inflight = [p \in Invocations |-> Idle]
    /\ challenge = NoChallenge
    /\ verified = NotVerified
    /\ accepted = {}
    /\ reviews = NoReviews

NextChallenge == GenerateChallenge

SpecChallenge == InitChallenge /\ [][NextChallenge]_vars

\* a pass of the loop in which the entropy source gives a value below range
DrawsInRange ==
    /\ GenerateChallenge
    /\ challenge'.pc = "returned"

\* generateChallenge on an entropy source that does not give out-of-range
\* values forever
SpecChallengeFair ==
    InitChallenge /\ [][NextChallenge]_vars /\ WF_vars(DrawsInRange)

----------------------------------------------------------------------------
(* The verifier's side: verifyAgentResponse, utils/encoding.ts *)

ChallengeToString_Zero(c) == "0"

\* payload.challenge.toString()
ChallengeToString(c) == ToString(c)

\* JWSPacker.unpack against the DID document createDidDoc(did, address): the
\* header names the document's verification method, and the signature is one
\* by the document's address over this header and this body
SignatureValid_AnyBody(token, did, address) ==
    /\ token.header.kid = did
    /\ token.signature.signer = address

SignatureValid(token, did, address) ==
    /\ token.header.kid = did
    /\ token.signature.signer = address
    /\ token.signature.over = [header |-> token.header, body |-> token.payload]

\* an unpack that hands back the body the signer signed, as for a token
\* carrying its own body
decodeAuthToken_SignedBody(token, did, address) ==
    IF SignatureValid_AnyBody(token, did, address)
    THEN [err |-> "", body |-> token.signature.over.body]
    ELSE [err |-> "invalid signature", body |-> NoBody]

decodeAuthToken(token, did, address) ==
    IF SignatureValid(token, did, address)
    THEN [err |-> "", body |-> token.payload]
    ELSE [err |-> "invalid signature", body |-> NoBody]

\* the token the verifier puts together again, keeping the middle segment
\* of the token it received
fullJws_KeepsMiddle(payload) == payload.signedResponseToken

\* verifyAgentResponse, fullJws: jwsParts[0], the body built again from the
\* payload, jwsParts[2]
fullJws(payload) ==
    LET jwsParts == payload.signedResponseToken
    IN  [header |-> jwsParts.header,
         payload |-> [from |-> payload.did,
                      artifacts |-> Artifacts(parsedResponsePayload(payload)),
                      challenge |-> ChallengeToString(payload.challenge)],
         signature |-> jwsParts.signature]

\* verifyAgentResponse: "" when it returns, else the error it throws
verifyAgentResponse(payload) ==
    LET artifacts == Artifacts(parsedResponsePayload(payload))
        decoded == decodeAuthToken(fullJws(payload), payload.did,
                                   payload.ethAddress)
        decodedPayload == decoded.body
    IN  IF decoded.err # "" THEN decoded.err
        ELSE IF decodedPayload.from = 0
        THEN "Missing required field: 'from' in decoded payload"
        ELSE IF decodedPayload.challenge = ""
        THEN "Missing required field: 'challenge' in decoded payload"
        ELSE IF decodedPayload.challenge # ChallengeToString(payload.challenge)
        THEN "Challenge doesn't match"
        ELSE IF decodedPayload.artifacts # artifacts
        THEN "Artifacts doesn't match"
        ELSE ""

\* the challenges handed to the tools as args.challenge
ChallengeArgs == {0, 940}

\* A response changed on its way to the verifier, without signing it again:
\* another signature segment, or another value in one signed field.
OtherSignatures(sig) ==
    {NoSignature, [sig EXCEPT !.signer = @ + 1]}

OtherHashes(h) == {Undefined, "0xforged"} \ {h}

Tampered(payload) ==
    {[changed |-> "signature",
      payload |-> [payload EXCEPT !.signedResponseToken.signature = sig]] :
        sig \in OtherSignatures(payload.signedResponseToken.signature)}
    \cup {[changed |-> "challenge",
           payload |-> [payload EXCEPT !.challenge = @ + 1]],
          [changed |-> "did", payload |-> [payload EXCEPT !.did = @ + 1]],
          [changed |-> "field",
           payload |-> [payload EXCEPT !.ethAddress = @ + 1]]}
    \cup {[changed |-> "field", payload |-> [payload EXCEPT !.txHash = h]] :
             h \in OtherHashes(payload.txHash)}
    \cup {[changed |-> "field",
           payload |-> [payload EXCEPT !.txHashOwnerAttestation = h]] :
             h \in OtherHashes(payload.txHashOwnerAttestation)}
    \cup {[changed |-> "field",
           payload |-> [payload EXCEPT !.txHashAgentAttestation = h]] :
             h \in OtherHashes(payload.txHashAgentAttestation)}

Receive(payload, changed) ==
    /\ verified' = [called |-> TRUE, changed |-> changed,
                    err |-> verifyAgentResponse(payload)]
    /\ UNCHANGED <<keys, txDidAuthAttestation, txOwnershipAttestationFromAgent,
                   txOwnershipAttestationFromOwner, blockchainConfig, seed,
                   idByAddress, authMethodRegistered, balance, txs, now,
                   challenge, last, inflight, accepted, reviews>>

\* the verifier checks the payload the last tool returned
Verify ==
    /\ last.op # "none"
    /\ last.err = ""
    /\ Receive(last.payload, "")

\* the verifier checks a changed copy of the payload the last tool returned
VerifyTampered ==
    /\ last.op # "none"
    /\ last.err = ""
    /\ \E t \in Tampered(last.payload) : Receive(t.payload, t.changed)

\* the provider on an empty key store, in an environment where every flow can
\* succeed; the caller holds a challenge
InitVerify ==
    /\ keys = <<>>
    /\ txDidAuthAttestation = Undefined
    /\ txOwnershipAttestationFromAgent = Undefined
    /\ txOwnershipAttestationFromOwner = Undefined
    /\ blockchainConfig = TRUE
    /\ seed = TRUE
    /\ idByAddress = [a \in Addresses |-> 0]
    /\ authMethodRegistered = TRUE
    /\ balance = 1
    /\ txs = <<>>
    /\ now = 1000
    /\ last = [op |-> "none", err |-> "", arg |-> Undefined,
               preDid |-> Undefined, preAgent |-> Undefined,
               preOwner |-> Undefined, preKeys |-> <<>>, preTxs |-> 0,
               preBalance |-> 0,
               sent |-> <<>>, calls |-> <<>>, authId |-> 0,
               attested |-> NotAttested, resolved |-> NotResolved,
               created |-> FALSE, payload |-> NoPayload]
    /\ inflight = [p \in Invocations |-> Idle]
    /\ challenge \in {[pc |-> "returned", value |-> c] : c \in ChallengeArgs}
    /\ verified = NotVerified
    /\ accepted = {}
    /\ reviews = NoReviews

NextVerify ==
    \/ GenerateKeys
    \/ ProveDid
    \/ ProveOwner
    \/ SetOwnership
    \/ ProveReputation
    \/ Verify
    \/ VerifyTampered

SpecVerify == InitVerify /\ [][NextVerify]_vars

----------------------------------------------------------------------------
(* getReviewAttestationsInfo, one await at a time *)

StartReviews ==
    /\ reviews.pc = "idle"
    /\ \E apiUrl \in BOOLEAN : reviews' = getReviewAttestationsInfo(apiUrl)
    /\ UNCHANGED <<keys, txDidAuthAttestation, txOwnershipAttestationFromAgent,
                   txOwnershipAttestationFromOwner, blockchainConfig, seed,
                   idByAddress, authMethodRegistered, balance, txs, now,
                   challenge, verified, accepted, last, inflight>>

PageReturns ==
    /\ reviews.pc = "waiting"
    /\ \E data \in PageData, totalPages \in 0..MaxPages :
         reviews' = pageReturned(reviews, data, totalPages)
    /\ UNCHANGED <<keys, txDidAuthAttestation, txOwnershipAttestationFromAgent,
                   txOwnershipAttestationFromOwner, blockchainConfig, seed,
                   idByAddress, authMethodRegistered, balance, txs, now,
                   challenge, verified, accepted, last, inflight>>

\* axios.get rejects: the call throws
PageFails ==
    /\ reviews.pc = "waiting"
    /\ reviews' = [reviews EXCEPT !.pc = "failed"]
    /\ UNCHANGED <<keys, txDidAuthAttestation, txOwnershipAttestationFromAgent,
                   txOwnershipAttestationFromOwner, blockchainConfig, seed,
                   idByAddress, authMethodRegistered, balance, txs, now,
                   challenge, verified, accepted, last, inflight>>

NextReviews ==
    \/ StartReviews
    \/ PageReturns
    \/ PageFails

SpecReviews == InitChallenge /\ [][NextReviews]_vars

----------------------------------------------------------------------------
(* The client: ClientHandler, client/types.ts *)

\* ClientHandler.verifyAuthDid: "" when it returns, else the error it throws
verifyAuthDid(payload) ==
    LET decoded == decodeAuthToken(payload.signedDidAuthToken, payload.did,
                                   payload.ethAddress)
        decodedPayload == decoded.body
    IN  IF decoded.err # "" THEN decoded.err
        ELSE IF decodedPayload.from = 0
        THEN "Missing required field: 'from' in decoded payload"
        ELSE IF decodedPayload.challenge = ""
        THEN "Missing required field: 'challenge' in decoded payload"
        ELSE IF decodedPayload.challenge # ChallengeToString(payload.challenge)
        THEN "Challenge doesn't match"
        ELSE ""

\* requestAuthDidFromAgent: the client takes a challenge (actualChallenge) and
\* sends it to the agent
RequestAuthDid ==
    /\ \E actualChallenge \in ChallengeArgs :
         challenge' = [pc |-> "returned", value |-> actualChallenge]
    /\ UNCHANGED <<keys, txDidAuthAttestation, txOwnershipAttestationFromAgent,
                   txOwnershipAttestationFromOwner, blockchainConfig, seed,
                   idByAddress, authMethodRegistered, balance, txs, now, last,
                   inflight, verified, accepted, reviews>>

\* the client hands the artifacts of the agent's latest proveDid response to
\* verifyAuthDid; expected is the challenge the client holds, decoded the one
\* in the body of signedDidAuthToken
VerifyAuthDid ==
    /\ last.op = "proveDid"
    /\ last.err = ""
    /\ verified' = [called |-> TRUE, changed |-> "",
                    expected |-> ChallengeToString(challenge.value),
                    decoded |-> last.payload.signedDidAuthToken.payload.challenge,
                    err |-> verifyAuthDid(last.payload)]
    /\ UNCHANGED <<keys, txDidAuthAttestation, txOwnershipAttestationFromAgent,
                   txOwnershipAttestationFromOwner, blockchainConfig, seed,
                   idByAddress, authMethodRegistered, balance, txs, now,
                   challenge, last, inflight, accepted, reviews>>

NextClient ==
    \/ GenerateKeys
    \/ ProveDid
    \/ RequestAuthDid
    \/ VerifyAuthDid

SpecClient == InitVerify /\ [][NextClient]_vars

----------------------------------------------------------------------------
(* The owner's side: owner-auth tokens presented again as time passes *)

\* the times of the model: when the tokens were issued, and 299, 300 and 301
\* seconds later
Instants == {1000, 1299, 1300, 1301}

\* Math.floor(Date.now() / 1000) grows
Tick ==
    /\ \E t \in Instants : t > now /\ now' = t
    /\ UNCHANGED <<keys, txDidAuthAttestation, txOwnershipAttestationFromAgent,
                   txOwnershipAttestationFromOwner, blockchainConfig, seed,
                   idByAddress, authMethodRegistered, balance, txs, challenge,
                   verified, accepted, reviews, last, inflight>>

\* generateKeys called with the token tok at the time now; replay tells
\* whether an earlier call returned on the same token
GenerateKeysWith ==
    \E tok \in OwnerTokens :
        \E o \in generateKeys(tok) :
            /\ Apply("generateKeys",
                     [tok |-> tok, at |-> now, replay |-> tok \in accepted], o)
            /\ accepted' = IF o.err = "" THEN accepted \cup {tok} ELSE accepted

InitClock ==
    /\ keys = <<>>
    /\ txDidAuthAttestation = Undefined
    /\ txOwnershipAttestationFromAgent = Undefined
    /\ txOwnershipAttestationFromOwner = Undefined
    /\ blockchainConfig = TRUE
    /\ seed = TRUE
    /\ idByAddress = [a \in Addresses |-> 0]
    /\ authMethodRegistered = TRUE
    /\ balance = 1
    /\ txs = <<>>
    /\ now = 1000
    /\ last = [op |-> "none", err |-> "", arg |-> Undefined,
               preDid |-> Undefined, preAgent |-> Undefined,
               preOwner |-> Undefined, preKeys |-> <<>>, preTxs |-> 0,
               preBalance |-> 0,
               sent |-> <<>>, calls |-> <<>>, authId |-> 0,
               attested |-> NotAttested, resolved |-> NotResolved,
               created |-> FALSE, payload |-> NoPayload]
    /\ inflight = [p \in Invocations |-> Idle]
    /\ challenge = NoChallenge
    /\ verified = NotVerified
    /\ accepted = {}
    /\ reviews = NoReviews

NextClock ==
    \/ GenerateKeysWith
    \/ ProveDid
    \/ ProveOwner
    \/ SetOwnership
    \/ Tick

SpecClock == InitClock /\ [][NextClock]_vars

\* generateKeys at different times, between proofs that fill the tracker
NextOwnerAuth ==
    \/ GenerateKeysWith
    \/ ProveDid
    \/ SetOwnership
    \/ Tick

SpecOwnerAuth == InitClock /\ [][NextOwnerAuth]_vars

----------------------------------------------------------------------------
(* Invocations that are not serialized by the caller: generateKeys and
   proveDid cut at their awaits, two of them in flight on one provider. *)

\* invocation p goes on as rec
Goes(p, rec) == inflight' = [inflight EXCEPT ![p] = rec]

\* invocation p ends with error e
Ends(p, e) == Goes(p, [inflight[p] EXCEPT !.pc = "idle", !.err = e])

\* generateKeys up to the await of keyProvider.list()
RaceGenerateKeys(p) ==
    /\ inflight[p].pc = "idle"
    /\ \E tok \in OwnerTokens :
         LET auth == checkOwnerAuthToken(tok, now)
             started == [Idle EXCEPT !.op = "generateKeys"]
         IN  Goes(p, IF auth # ""
                     THEN [started EXCEPT !.err = auth]
                     ELSE [started EXCEPT !.pc = "list"])
    /\ UNCHANGED <<keys, txDidAuthAttestation, txOwnershipAttestationFromAgent,
                   txOwnershipAttestationFromOwner, blockchainConfig, seed,
                   idByAddress, authMethodRegistered, balance, txs, now, challenge, verified, accepted, reviews, last>>

\* const existingKeys = await keyProvider.list()
RaceList(p) ==
    /\ inflight[p].pc = "list"
    /\ Goes(p, [inflight[p] EXCEPT !.pc = "branch", !.existingKeys = keys])
    /\ UNCHANGED <<keys, txDidAuthAttestation, txOwnershipAttestationFromAgent,
                   txOwnershipAttestationFromOwner, blockchainConfig, seed,
                   idByAddress, authMethodRegistered, balance, txs, now, challenge, verified, accepted, reviews, last>>

\* the branch re-reading the store before it creates
InvokesCreate_Rechecks(existingKeys, ks) ==
    ~KeyExists(existingKeys) /\ ~KeyExists(ks)

\* if (keyExists) ... else ...: the branch is taken on the list read before the
\* await, whatever the store ks holds by now
InvokesCreate(existingKeys, ks) == ~KeyExists(existingKeys)

\* the branch on keyExists, up to the await of createKeyFromSeed
RaceBranch(p) ==
    /\ inflight[p].pc = "branch"
    /\ IF ~InvokesCreate(inflight[p].existingKeys, keys)
       THEN /\ Goes(p, [inflight[p] EXCEPT !.pc = "reset"])
            /\ UNCHANGED keys
       ELSE IF ~seed
       THEN /\ Ends(p, "Seed is required to generate new key")
            /\ UNCHANGED keys
       ELSE /\ keys' = createKeyFromSeed(keys)
            /\ Goes(p, [inflight[p] EXCEPT !.pc = "reset", !.created = TRUE])
    /\ UNCHANGED <<txDidAuthAttestation, txOwnershipAttestationFromAgent,
                   txOwnershipAttestationFromOwner, blockchainConfig, seed,
                   idByAddress, authMethodRegistered, balance, txs, now, challenge, verified, accepted, reviews, last>>

\* the rest of generateKeys: the identity is resolved, the tracker reset, the
\* response signed
RaceReset(p) ==
    /\ inflight[p].pc = "reset"
    /\ txDidAuthAttestation' = Undefined
    /\ txOwnershipAttestationFromAgent' = Undefined
    /\ txOwnershipAttestationFromOwner' = Undefined
    /\ Goes(p, [inflight[p] EXCEPT !.pc = "idle",
                                   !.resolved = getKeyInfoFromKMS(keys)])
    /\ UNCHANGED <<keys, blockchainConfig, seed, idByAddress,
                   authMethodRegistered, balance, txs, now, challenge, verified, accepted, reviews, last>>

\* proveDid up to the await of packDIDChallenge
RaceProveDid(p) ==
    /\ inflight[p].pc = "idle"
    /\ LET ki == getKeyInfoFromKMS(keys)
           started == [Idle EXCEPT !.op = "proveDid", !.resolved = ki]
       IN  \/ Goes(p, IF ki.err # ""
                      THEN [started EXCEPT !.err = ki.err]
                      ELSE [started EXCEPT !.pc = "check"])
           \/ /\ ki.err = ""
              /\ Goes(p, [started EXCEPT !.err = "kms.sign failed"])
    /\ UNCHANGED <<keys, txDidAuthAttestation, txOwnershipAttestationFromAgent,
                   txOwnershipAttestationFromOwner, blockchainConfig, seed,
                   idByAddress, authMethodRegistered, balance, txs, now, challenge, verified, accepted, reviews, last>>

\* the test of the tracker field, up to the await of getBalance
RaceCheck(p) ==
    /\ inflight[p].pc = "check"
    /\ Goes(p, IF SendsDidAuthAttestation
               THEN [inflight[p] EXCEPT !.pc = "flow", !.sends = TRUE]
               ELSE [inflight[p] EXCEPT !.pc = "idle"])
    /\ UNCHANGED <<keys, txDidAuthAttestation, txOwnershipAttestationFromAgent,
                   txOwnershipAttestationFromOwner, blockchainConfig, seed,
                   idByAddress, authMethodRegistered, balance, txs, now, challenge, verified, accepted, reviews, last>>

\* the handler reading the tracker field again after the await
EntersFlow_Rechecks(sends, did) == sends /\ ~IsSet(did)

\* inside the if: the handler resumes with the outcome of the test it made
\* before the await, whatever the field did holds by now
EntersFlow(sends, did) == sends

\* the sending block of proveDid: the balance, sendDidAuthAttestation, and the
\* assignment of the field
RaceFlow(p) ==
    /\ inflight[p].pc = "flow"
    /\ IF ~EntersFlow(inflight[p].sends, txDidAuthAttestation)
       THEN /\ Ends(p, "")
            /\ UNCHANGED <<txDidAuthAttestation, idByAddress, txs>>
       ELSE IF InsufficientBalance(balance)
       THEN /\ Ends(p, "Insufficient balance")
            /\ UNCHANGED <<txDidAuthAttestation, idByAddress, txs>>
       ELSE \E result \in sendDidAuthAttestation(keys, idByAddress,
                              authMethodRegistered,
                              [agentId |-> inflight[p].resolved.id,
                               agentAddress |-> inflight[p].resolved.ethAddress],
                              Len(txs)) :
              /\ Len(txs) + Len(result.sent) <= MaxTxs
              /\ txs' = txs \o [i \in 1..Len(result.sent) |->
                                   Chained(result.sent[i])]
              /\ idByAddress' = result.reg
              /\ txDidAuthAttestation' = IF result.err = ""
                                         THEN result.txHash
                                         ELSE txDidAuthAttestation
              /\ Goes(p, [inflight[p] EXCEPT !.pc = "idle",
                                             !.err = result.err,
                                             !.sent = result.sent,
                                             !.replaced = txDidAuthAttestation])
    /\ UNCHANGED <<keys, txOwnershipAttestationFromAgent,
                   txOwnershipAttestationFromOwner, blockchainConfig, seed,
                   authMethodRegistered, balance, now, challenge, verified, accepted, reviews, last>>

InitRace ==
    /\ keys = <<>>
    /\ txDidAuthAttestation = Undefined
    /\ txOwnershipAttestationFromAgent = Undefined
    /\ txOwnershipAttestationFromOwner = Undefined
    /\ blockchainConfig = TRUE
    /\ seed \in BOOLEAN
    /\ idByAddress \in {reg \in [Addresses -> {0, AgentId}] :
                           reg[EthAddressOf(OtherKey)] = 0}
    /\ authMethodRegistered = TRUE
    /\ balance \in {0, 1}
    /\ txs = <<>>
    /\ now = 1000
    /\ last = [op |-> "none", err |-> "", arg |-> Undefined,
               preDid |-> Undefined, preAgent |-> Undefined,
               preOwner |-> Undefined, preKeys |-> <<>>, preTxs |-> 0,
               preBalance |-> 0,
               sent |-> <<>>, calls |-> <<>>, authId |-> 0,
               attested |-> NotAttested, resolved |-> NotResolved,
               created |-> FALSE, payload |-> NoPayload]
    /\ inflight = [p \in Invocations |-> Idle]
    /\ challenge = NoChallenge
    /\ verified = NotVerified
    /\ accepted = {}
    /\ reviews = NoReviews

NextRace ==
    \E p \in Invocations :
        \/ RaceGenerateKeys(p)
        \/ RaceList(p)
        \/ RaceBranch(p)
        \/ RaceReset(p)
        \/ RaceProveDid(p)
        \/ RaceCheck(p)
        \/ RaceFlow(p)

SpecRace == InitRace /\ [][NextRace]_vars

----------------------------------------------------------------------------
(* Properties *)

\* the tools that do not generate keys
ProofOps == {"proveDid", "proveOwner", "setOwnership", "proveReputation"}

\* the requests of the last invocation with the given method
SentBy(method) ==
    {i \in 1..Len(last.sent) : last.sent[i].method = method}

\* C1: a proveDid invoked while txDidAuthAttestation is set hands no request
\* to the wallet (no submitResponse, no recordAttestation), leaves
\* txDidAuthAttestation as it was, and returns a signed response; the one
\* thing that can still make it throw is the signing backend.
C1_ProveDidIdempotent ==
    (last.op = "proveDid" /\ last.preDid # Undefined) =>
        /\ last.sent = <<>>
        /\ Len(txs) = last.preTxs
        /\ txDidAuthAttestation = last.preDid
        /\ last.err \in {"", "kms.sign failed"}
        /\ (last.err = "" => last.payload.signedResponseToken # NoToken)

C1_Witness ==
    /\ last.op = "proveDid"
    /\ last.preDid # Undefined
    /\ last.err = ""
    /\ last.payload.signedResponseToken # NoToken
    /\ Len(txs) > 0

\* the attestation setOwnership fetched in the last invocation
FetchedByLast == getOwnershipAttestationFromOwner(last.arg)

\* the last invocation was a setOwnership that fetched an attestation
SetOwnershipFetched ==
    /\ last.op = "setOwnership"
    /\ last.preKeys # <<>>
    /\ blockchainConfig
    /\ last.arg \in DOMAIN OwnerTxs
    /\ FetchedByLast.err = ""

TrackerAsBefore ==
    /\ txDidAuthAttestation = last.preDid
    /\ txOwnershipAttestationFromAgent = last.preAgent
    /\ txOwnershipAttestationFromOwner = last.preOwner

\* C2: a setOwnership that fetches an attestation whose agentId is not the
\* local identity's id fails and leaves the three tracker fields as they were.
C2_MismatchLeavesTracker ==
    (SetOwnershipFetched
        /\ FetchedByLast.agentId # getKeyInfoFromKMS(last.preKeys).id) =>
        /\ last.err # ""
        /\ TrackerAsBefore

\* C3: once any of the three fields holds a hash, no proveDid, proveOwner,
\* setOwnership or proveReputation replaces it by another hash.
C3_EveryFieldSetAtMostOnce ==
    (last.op \in ProofOps) =>
        /\ (last.preDid # Undefined /\ txDidAuthAttestation # Undefined
              => txDidAuthAttestation = last.preDid)
        /\ (last.preAgent # Undefined
              /\ txOwnershipAttestationFromAgent # Undefined
              => txOwnershipAttestationFromAgent = last.preAgent)
        /\ (last.preOwner # Undefined
              /\ txOwnershipAttestationFromOwner # Undefined
              => txOwnershipAttestationFromOwner = last.preOwner)

\* a field that held a hash before the last invocation holds none after it
Cleared ==
    \/ last.preDid # Undefined /\ txDidAuthAttestation = Undefined
    \/ last.preAgent # Undefined /\ txOwnershipAttestationFromAgent = Undefined
    \/ last.preOwner # Undefined /\ txOwnershipAttestationFromOwner = Undefined

\* C4: a field goes from set to absent only in an invocation that calls
\* createKeyFromSeed and puts a new key in the store; an invocation that
\* leaves the key store as it was clears nothing.
C4_ClearedOnlyWithFreshKey ==
    Cleared => (last.created /\ keys # last.preKeys)

\* C5: a generateKeys that returns leaves the three fields absent, whatever
\* they held before.
C5_GenerateKeysResets ==
    (last.op = "generateKeys" /\ last.err = "") =>
        /\ txDidAuthAttestation = Undefined
        /\ txOwnershipAttestationFromAgent = Undefined
        /\ txOwnershipAttestationFromOwner = Undefined

C5_Witness ==
    /\ last.op = "generateKeys"
    /\ last.err = ""
    /\ last.preDid # Undefined
    /\ last.preAgent # Undefined
    /\ last.preOwner # Undefined
    /\ txDidAuthAttestation = Undefined
    /\ txOwnershipAttestationFromAgent = Undefined
    /\ txOwnershipAttestationFromOwner = Undefined

\* the tools that run an attestation flow
FlowOps == {"proveDid", "proveOwner"}

\* the calls of the last invocation with the given name
CallsOf(name) ==
    {i \in 1..Len(last.calls) : last.calls[i].call = name}

\* the last invocation entered sendDidAuthAttestation or
\* sendOwnershipAttestation: the first thing either does is read the registry
FlowStarted ==
    /\ last.op \in FlowOps
    /\ CallsOf("getIdByAddress") # {}

\* what the registry mapped the agent's address to when the flow started
FirstRead == last.calls[2].result

\* the flow's recordAttestation request was confirmed with a log
FlowRecorded ==
    \E i \in SentBy("recordAttestation") : last.sent[i].receipt = "logs"

\* the field the last flow is to set
FlowField ==
    IF last.op = "proveDid"
    THEN txDidAuthAttestation
    ELSE txOwnershipAttestationFromAgent

\* h is the hash of a recordAttestation request of the given schema that the
\* agent handed to the wallet and that was confirmed with at least one log
RecordedBy(h, schema) ==
    \E i \in 1..Len(txs) :
        /\ txs[i].hash = h
        /\ txs[i].method = "recordAttestation"
        /\ txs[i].schema = schema
        /\ txs[i].confirmed

\* C6: whenever txDidAuthAttestation (txOwnershipAttestationFromAgent) is set
\* it is the hash of a recordAttestation request of the agent that was
\* confirmed with a receipt holding a log; and a flow that does not get that
\* far (authentication fails, the wallet throws, no receipt, no logs) makes
\* the tool fail with the field still absent.
C6_FieldIsConfirmedAttestation ==
    /\ txDidAuthAttestation # Undefined
         => RecordedBy(txDidAuthAttestation, "agentDidAuth")
    /\ txOwnershipAttestationFromAgent # Undefined
         => RecordedBy(txOwnershipAttestationFromAgent, "agentOwnership")
    /\ (FlowStarted /\ ~FlowRecorded)
         => (last.err # "" /\ FlowField = Undefined)

C6_Witness ==
    /\ txDidAuthAttestation # Undefined
    /\ last.op = "proveOwner"
    /\ FlowStarted
    /\ SentBy("recordAttestation") # {}
    /\ ~FlowRecorded
    /\ txOwnershipAttestationFromAgent = Undefined

\* C7: when the registry maps the agent's address to a nonzero id at the start
\* of the flow, no submitResponse request is made; if the id is the agent's,
\* authentication returns it and the flow goes on to its one
\* recordAttestation request; if it is not, the flow fails and no request at
\* all is handed to the wallet.
C7_AlreadyMapped ==
    (FlowStarted /\ FirstRead # 0) =>
        /\ SentBy("submitResponse") = {}
        /\ CallsOf("authMethodExists") = {}
        /\ IF FirstRead = getKeyInfoFromKMS(last.preKeys).id
           THEN /\ last.authId = FirstRead
                /\ Len(last.sent) = 1
                /\ last.sent[1].method = "recordAttestation"
           ELSE /\ last.err = "Authenticated user ID does not match the agent ID"
                /\ last.sent = <<>>
                /\ Len(txs) = last.preTxs

C7_Witness ==
    /\ FlowStarted
    /\ FirstRead = getKeyInfoFromKMS(last.preKeys).id
    /\ last.authId = FirstRead
    /\ last.sent # <<>>
    /\ SentBy("submitResponse") = {}

\* C8: when the registry maps the address to zero, authMethodExists is asked
\* before anything is estimated or sent; if it answers that ethIdentity is not
\* registered the flow fails and no request (submitResponse or
\* recordAttestation) is handed to the wallet.
C8_MethodCheckedFirst ==
    (FlowStarted /\ FirstRead = 0) =>
        /\ last.calls[3].call = "authMethodExists"
        /\ \A i \in CallsOf("estimateGas") \cup CallsOf("sendTransaction") : i > 3
        /\ last.calls[3].result = 0 =>
             /\ last.err = "Could not authenticate: ethIdentity auth method not found"
             /\ last.sent = <<>>
             /\ Len(txs) = last.preTxs

C8_Witness ==
    /\ FlowStarted
    /\ FirstRead = 0
    /\ last.calls[3].call = "authMethodExists"
    /\ last.calls[3].result = 0
    /\ last.err # ""
    /\ last.sent = <<>>

\* the submitResponse request of the last invocation came back with a receipt
ProofConfirmed ==
    \E i \in SentBy("submitResponse") : last.sent[i].receipt = "logs"

\* C9: once the submitResponse request is confirmed the registry is read a
\* second time; if it still maps the address to zero the flow fails, no
\* recordAttestation request is made and the field of the flow stays absent.
C9_RereadAfterProof ==
    ProofConfirmed =>
        /\ Len(last.calls) >= 6
        /\ last.calls[5].call = "sendTransaction"
        /\ last.calls[6].call = "getIdByAddress"
        /\ last.calls[6].result = 0 =>
             /\ last.err = "Could not authenticate: user ID is still 0"
             /\ SentBy("recordAttestation") = {}
             /\ Len(txs) = last.preTxs + 1
             /\ FlowField = Undefined

C9_Witness ==
    /\ ProofConfirmed
    /\ last.calls[6].call = "getIdByAddress"
    /\ last.calls[6].result = 0
    /\ last.err # ""
    /\ FlowField = Undefined

\* C10: every gas estimation is followed by the submission of the request it
\* was made for, whether it threw or not; the request carries gasLimit
\* 10,000,000 when the estimation threw and the estimate when it did not.
C10_EstimationNeverPropagated ==
    /\ \A i \in CallsOf("estimateGas") :
         /\ i < Len(last.calls)
         /\ last.calls[i + 1].call = "sendTransaction"
    /\ Cardinality(CallsOf("estimateGas")) = Len(last.sent)
    /\ \A i \in 1..Len(last.sent) :
         last.sent[i].gasLimit = IF last.sent[i].estimate = <<>>
                                 THEN 10000000
                                 ELSE last.sent[i].estimate[1]

C10_Witness ==
    /\ Len(last.sent) = 2
    /\ last.sent[1].estimate = <<>>
    /\ last.sent[1].gasLimit = 10000000
    /\ last.sent[2].estimate # <<>>
    /\ last.sent[2].gasLimit = last.sent[2].estimate[1]
    /\ last.err = ""

\* C11: the flow's sendAttestation returns only when the wallet gave its
\* recordAttestation request a receipt with at least one log, and then the
\* attestationId is the second topic of the receipt's first log and the txHash
\* is the receipt's hash; a throw of the wallet, a null receipt or a receipt
\* without logs makes the call, and the tool with it, fail.
C11_AttestationFromFirstLog ==
    /\ last.attested.txHash # Undefined => FlowRecorded
    /\ \A i \in SentBy("recordAttestation") :
         LET tx == last.sent[i]
             receipt == ReceiptOf(tx.receipt, tx.hash)
         IN  IF tx.receipt = "logs"
             THEN /\ last.attested.attestationId = receipt.logs[1].topics[2]
                  /\ last.attested.txHash = receipt.hash
             ELSE /\ last.attested = NotAttested
                  /\ last.err =
                       CASE tx.receipt = "throw" -> "wallet.sendTransaction failed"
                         [] tx.receipt = "null" -> "No transaction created"
                         [] tx.receipt = "nologs" ->
                              "No logs found for Attestation transaction"

C11_Witness ==
    /\ last.op = "proveOwner"
    /\ FlowRecorded
    /\ last.attested.txHash = txOwnershipAttestationFromAgent
    /\ last.attested.attestationId # Undefined
    /\ last.err = ""

\* the last invocation read the balance of the agent's address and found zero
FoundNoBalance ==
    /\ last.op \in FlowOps
    /\ last.calls # <<>>
    /\ last.calls[1] = Called("getBalance", 0)

\* C12: the balance is read before anything is submitted.  A proveDid (with
\* blockchain config, txDidAuthAttestation absent) or proveOwner (with
\* txOwnershipAttestationFromAgent absent) that finds it zero fails with the
\* insufficient-balance error, has handed no request to the wallet, has not
\* even read the registry, and leaves the tracker as it was; and every
\* invocation that handed a request to the wallet read a nonzero balance first.
C12_BalanceCheckedFirst ==
    /\ FoundNoBalance =>
         /\ last.err = "Insufficient balance"
         /\ last.sent = <<>>
         /\ Len(last.calls) = 1
         /\ Len(txs) = last.preTxs
         /\ TrackerAsBefore
    /\ (last.op = "proveDid" /\ last.preKeys # <<>> /\ blockchainConfig
          /\ last.preDid = Undefined /\ last.preBalance = 0)
         => (FoundNoBalance \/ last.err = "kms.sign failed")
    /\ (last.op = "proveOwner" /\ last.preKeys # <<>> /\ blockchainConfig
          /\ last.preAgent = Undefined /\ last.preBalance = 0)
         => FoundNoBalance
    /\ last.sent # <<>> =>
         /\ last.calls[1].call = "getBalance"
         /\ last.calls[1].result # 0

C12_Witness ==
    /\ FoundNoBalance
    /\ last.op = "proveOwner"
    /\ last.preDid # Undefined
    /\ last.preOwner # Undefined
    /\ last.err = "Insufficient balance"
    /\ last.sent = <<>>
    /\ TrackerAsBefore

\* C13: one invocation hands the wallet at most one submitResponse request and
\* at most one recordAttestation request, whatever fails during it: nothing is
\* estimated or submitted a second time.
C13_NoResubmission ==
    /\ Cardinality(SentBy("submitResponse")) <= 1
    /\ Cardinality(SentBy("recordAttestation")) <= 1
    /\ Len(last.sent) =
         Cardinality(SentBy("submitResponse"))
           + Cardinality(SentBy("recordAttestation"))
    /\ Cardinality(CallsOf("sendTransaction")) = Len(last.sent)
    /\ Len(txs) = last.preTxs + Len(last.sent)
    /\ last.op \notin FlowOps => last.sent = <<>>

C13_Witness ==
    /\ last.op = "proveDid"
    /\ Len(last.sent) = 2
    /\ last.sent[1].method = "submitResponse"
    /\ last.sent[2].method = "recordAttestation"
    /\ last.sent[2].receipt = "throw"
    /\ last.err # ""

\* the identity of the last key of the store ks
IdentityOfLastKey(ks) ==
    [err |-> "", keyId |-> ks[Len(ks)],
     ethAddress |-> EthAddressOf(ks[Len(ks)]),
     id |-> IdOf(EthAddressOf(ks[Len(ks)]))]

\* C14: on an empty key store the resolver fails with the no-key error, on any
\* other it answers the identity of the last key of the list; resolving
\* changes neither the key store nor the tracker.  So proveDid, proveOwner,
\* setOwnership and proveReputation invoked on an empty store fail with that
\* error, hand nothing to the wallet, call nothing else, and leave the tracker
\* as it was.
C14_ResolverUsesLastKey ==
    /\ last.op \in ProofOps =>
         /\ keys = last.preKeys
         /\ last.resolved.err # "not called"
         /\ last.preKeys # <<>> => last.resolved = IdentityOfLastKey(last.preKeys)
         /\ last.preKeys = <<>> =>
              /\ last.resolved.err = "No keys found for key type"
              /\ last.err = "No keys found for key type"
              /\ last.sent = <<>>
              /\ last.calls = <<>>
              /\ Len(txs) = last.preTxs
              /\ TrackerAsBefore
    /\ last.op = "proveReputation" => TrackerAsBefore
    /\ (last.op = "generateKeys" /\ last.resolved.err # "not called")
         => last.resolved = IdentityOfLastKey(keys)

C14_Witness ==
    /\ last.op = "setOwnership"
    /\ last.preKeys = <<SeedKey, OtherKey>>
    /\ last.arg = "0xb1"
    /\ last.resolved.keyId = OtherKey
    /\ last.err = "AgentId does not match"

\* C15: starting from an empty key store, generateKeys calls createKeyFromSeed
\* only when the list is empty; the store never shrinks, so that happens at
\* most once; every generateKeys that finds a key reuses the last key of the
\* list and adds none; the store never holds more than one key.
C15_OneSeedKey ==
    /\ Len(keys) <= 1
    /\ Len(keys) >= Len(last.preKeys)
    /\ last.created =>
         /\ last.op = "generateKeys"
         /\ last.preKeys = <<>>
         /\ keys = <<SeedKey>>
    /\ (last.op = "generateKeys" /\ last.preKeys # <<>>) =>
         /\ ~last.created
         /\ keys = last.preKeys
         /\ last.resolved.err # "not called"
              => last.resolved.keyId = last.preKeys[Len(last.preKeys)]
    /\ last.op \in ProofOps => keys = last.preKeys

C15_Witness ==
    /\ last.op = "generateKeys"
    /\ last.err = ""
    /\ last.preKeys = <<SeedKey>>
    /\ ~last.created
    /\ keys = <<SeedKey>>
    /\ last.resolved.keyId = SeedKey

\* the invocations that are past the branch on keyExists
PastBranch ==
    {p \in Invocations : inflight[p].op = "generateKeys"
                           /\ (inflight[p].pc = "reset"
                                 \/ (inflight[p].pc = "idle"
                                       /\ inflight[p].resolved.err = ""))}

\* C16: the list is read and the key created in two steps with an await
\* between them: an invocation calls createKeyFromSeed exactly when the list it
\* read was empty, whatever the store holds when it resumes.  So two
\* invocations in flight on an empty store can both read an empty list and
\* both call createKeyFromSeed (the state C16_Witness).
C16_CreateOnStaleList ==
    \A p \in PastBranch :
        inflight[p].created <=> (inflight[p].existingKeys = <<>>)

C16_Witness ==
    \A p \in Invocations :
        /\ inflight[p].op = "generateKeys"
        /\ inflight[p].existingKeys = <<>>
        /\ inflight[p].created

\* the invocation p handed the wallet a DID-auth recordAttestation request that
\* was confirmed with a log
RecordedDidAuth(p) ==
    \E i \in 1..Len(inflight[p].sent) :
        /\ inflight[p].sent[i].method = "recordAttestation"
        /\ inflight[p].sent[i].schema = "agentDidAuth"
        /\ inflight[p].sent[i].receipt = "logs"

\* the proveDid invocations that found the field absent and have returned
\* from the sending block without an error
SentAfterCheck ==
    {p \in Invocations : /\ inflight[p].op = "proveDid"
                         /\ inflight[p].pc = "idle"
                         /\ inflight[p].sends
                         /\ inflight[p].err = ""}

\* C17: nothing locks the tracker between the test of txDidAuthAttestation and
\* its assignment: a proveDid that found the field absent submits its
\* recordAttestation whatever the field holds when it resumes.  So two
\* proveDid in flight at once can both pass the test and both submit a
\* DID-auth recordAttestation (the state C17_Witness); run one at a time, the
\* second finds the field set and submits nothing.
C17_SendsOnStaleCheck ==
    /\ \A p \in SentAfterCheck : RecordedDidAuth(p)
    /\ \A p \in Invocations :
         inflight[p].sent # <<>> => (inflight[p].op = "proveDid" /\ inflight[p].sends)

C17_Witness ==
    /\ \A p \in Invocations : p \in SentAfterCheck /\ RecordedDidAuth(p)
    /\ \E p \in Invocations : /\ inflight[p].replaced # Undefined
                              /\ inflight[p].replaced # txDidAuthAttestation
    /\ Cardinality({i \in 1..Len(txs) : /\ txs[i].method = "recordAttestation"
                                        /\ txs[i].schema = "agentDidAuth"
                                        /\ txs[i].confirmed}) = 2
    /\ txDidAuthAttestation # Undefined

\* the values generateChallenge can return at time t
ChallengesAt(t) ==
    {generateChallenge(t, drawn).value :
        drawn \in {d \in RandomBytes(ChallengeBytes(t)) :
                     generateChallenge(t, d).pc = "returned"}}

\* C18: at a fixed time now, the values generateChallenge can return are
\* exactly the 121 integers of [now - 60, now + 60], both bounds included.
C18_ChallengeWindow ==
    challenge.pc = "returned" =>
        /\ challenge.value \in (now - 60)..(now + 60)
        /\ ChallengesAt(now) = (now - 60)..(now + 60)
        /\ Cardinality(ChallengesAt(now)) = 121

\* C19: every response payload a tool returns passes verifyAgentResponse as
\* it is: the body the verifier rebuilds from the payload (its did, its
\* challenge as a string, the hex string of its other fields) is the body the
\* agent signed, under the key of the payload's ethAddress.
C19_ResponseVerifies ==
    /\ (verified.called /\ verified.changed = "") => verified.err = ""
    /\ (last.op # "none" /\ last.err = "") =>
          /\ verifyAgentResponse(last.payload) = ""
          /\ last.payload.signedResponseToken.signature.over.body =
                [from |-> last.payload.did,
                 artifacts |-> Artifacts(parsedResponsePayload(last.payload)),
                 challenge |-> ChallengeToString(last.payload.challenge)]

\* the verifier accepted a response as returned, and the response at hand is
\* one of proveDid carrying a transaction hash and a challenge that is not 0
C19_Witness ==
    /\ verified.called
    /\ verified.changed = ""
    /\ verified.err = ""
    /\ last.op = "proveDid"
    /\ last.err = ""
    /\ IsSet(last.payload.txHash)
    /\ last.payload.challenge # 0

\* C20: a response whose signature segment was changed, or whose challenge,
\* did or other signed field was changed without signing again, is rejected
\* by verifyAgentResponse; and every such change of the response at hand
\* would be.
C20_TamperedRejected ==
    /\ (verified.called /\ verified.changed # "") => verified.err # ""
    /\ (last.op # "none" /\ last.err = "") =>
          \A t \in Tampered(last.payload) : verifyAgentResponse(t.payload) # ""

\* the verifier rejected a response whose challenge was changed while its
\* signature was left as the agent produced it
C20_Witness ==
    /\ verified.called
    /\ verified.changed = "challenge"
    /\ verified.err # ""
    /\ last.err = ""
    /\ last.payload.signedResponseToken # NoToken

\* C21: a validly signed owner-auth token carrying from and challenge is
\* accepted by checkOwnerAuthToken exactly when challenge + 300 >= now, whether
\* its body holds the challenge as a number or as a string: presented 299 or
\* 300 seconds after its challenge it is accepted, 301 seconds after it, it is
\* rejected as expired.
C21_FreshnessWindow ==
    (/\ last.op = "generateKeys"
     /\ last.arg.tok.sigOk
     /\ last.arg.tok.from
     /\ last.arg.tok.repr # "missing") =>
        IF last.arg.tok.challenge + validitySeconds >= last.arg.at
        THEN last.err # "Challenge is expired"
        ELSE last.err = "Challenge is expired"

\* C22: ClientHandler.verifyAuthDid returns only if the challenge decoded
\* from signedDidAuthToken is the challenge the client expects (the one
\* requestAuthDidFromAgent sent); whenever the two differ it fails with
\* "Challenge doesn't match".
C22_ExpectedChallengeOnly ==
    verified.called =>
        /\ verified.err = "" => verified.decoded = verified.expected
        /\ verified.decoded # verified.expected =>
              verified.err = "Challenge doesn't match"

\* C23: setOwnership hands no transaction to the wallet in any execution, and
\* it returns only if the attestation recorded on chain under the given hash
\* names the agent's derived id as agentId and the configured owner as ownerId.
C23_SetOwnershipReadOnlyStrict ==
    last.op = "setOwnership" =>
        /\ last.sent = <<>>
        /\ last.err = "" =>
              /\ last.arg \in DOMAIN OwnerTxs
              /\ OwnerTxs[last.arg].found
              /\ OwnerTxs[last.arg].agentId = last.resolved.id
              /\ OwnerTxs[last.arg].ownerId = OwnerId

\* setOwnership returned on the owner's attestation, with transactions of
\* earlier proofs on the chain and none added
C23_Witness ==
    /\ last.op = "setOwnership"
    /\ last.err = ""
    /\ last.arg = "0xb1"
    /\ txOwnershipAttestationFromOwner = "0xb1"
    /\ Len(txs) > 0
    /\ Len(txs) = last.preTxs

\* C24: a proveOwner started with txOwnershipAttestationFromAgent set hands
\* no transaction to the wallet and leaves the field as it was; when it
\* returns, txHashAgentAttestation is that hash and txHashOwnerAttestation is
\* the recorded owner attestation hash, or "" when none is recorded.  So after
\* a proveOwner has recorded its attestation, later calls submit no other one.
C24_ProveOwnerIdempotent ==
    (last.op = "proveOwner" /\ IsSet(last.preAgent)) =>
        /\ last.sent = <<>>
        /\ Len(txs) = last.preTxs
        /\ txOwnershipAttestationFromAgent = last.preAgent
        /\ last.err = "" =>
              /\ last.payload.txHashAgentAttestation = last.preAgent
              /\ last.payload.txHashOwnerAttestation = OrEmpty(last.preOwner)

\* a second proveOwner returned the hash the first one recorded, with one
\* ownership attestation of the agent on the chain
C24_Witness ==
    /\ last.op = "proveOwner"
    /\ last.err = ""
    /\ IsSet(last.preAgent)
    /\ last.payload.txHashAgentAttestation = last.preAgent
    /\ last.payload.txHashOwnerAttestation = ""
    /\ Cardinality({i \in 1..Len(txs) : /\ txs[i].method = "recordAttestation"
                                        /\ txs[i].schema = "agentOwnership"
                                        /\ txs[i].confirmed}) = 1

\* C25: generateKeys keeps no record of the tokens it has seen.  A token on
\* which an earlier generateKeys returned is accepted again whenever
\* challenge + 300 >= now, and the call again leaves the three tracker fields
\* cleared; presented after that window, it is rejected as expired.
C25_ReplayOnlyWhileFresh ==
    (last.op = "generateKeys" /\ last.arg.replay) =>
        IF last.arg.tok.challenge + validitySeconds >= last.arg.at
        THEN /\ last.err \in {"", "kms.sign failed"}
             /\ txDidAuthAttestation = Undefined
             /\ txOwnershipAttestationFromAgent = Undefined
             /\ txOwnershipAttestationFromOwner = Undefined
        ELSE last.err = "Challenge is expired"

\* the random arrays on which one pass of generateChallenge at time t returns v
DrawsGiving(t, v) ==
    {drawn \in RandomBytes(ChallengeBytes(t)) :
        generateChallenge(t, drawn) = [pc |-> "returned", value |-> v]}

\* C26: generateChallenge has no modulo bias.  Over all values of the random
\* bytes, every value of [min, min + range) is returned on the same number of
\* them, all the others are redrawn, and a returned value r satisfies
\* min <= r < min + range.
C26_NoModuloBias ==
    LET min == now - windowSize
        range == ChallengeRange(min, now + windowSize)
        each == Cardinality(DrawsGiving(now, min))
        redrawn == {drawn \in RandomBytes(ChallengeBytes(now)) :
                       generateChallenge(now, drawn).pc = "drawing"}
    IN  /\ each > 0
        /\ \A v \in min..(min + range - 1) :
              Cardinality(DrawsGiving(now, v)) = each
        /\ Cardinality(redrawn)
              = Cardinality(RandomBytes(ChallengeBytes(now))) - range * each
        /\ challenge.pc = "returned" =>
              /\ min <= challenge.value
              /\ challenge.value < min + range

\* the loop returned the largest value of the range
C26_Witness ==
    /\ challenge.pc = "returned"
    /\ challenge.value = now - windowSize
                            + ChallengeRange(now - windowSize, now + windowSize) - 1

\* C27: on an entropy source that does not give out-of-range values forever,
\* generateChallenge returns: the loop eventually draws a value below range.
C27_ChallengeTerminates ==
    (challenge.pc # "returned") ~> (challenge.pc = "returned")

\* a pass of the loop drew a value that is not below range, and goes on
C27_Witness ==
    /\ challenge.pc = "drawing"
    /\ \E drawn \in RandomBytes(ChallengeBytes(now)) :
         generateChallenge(now, drawn).pc = "returned"

\* C28: the token a tool returns is the signed token with its middle segment
\* emptied: header and signature are those of the token that was signed, and
\* the token the verifier puts together from them and from the body it builds
\* again out of the payload is exactly the token that was signed.
C28_DetachedFraming ==
    (last.op # "none" /\ last.err = "") =>
        LET token == last.payload.signedResponseToken
            signed == [header |-> token.signature.over.header,
                       payload |-> token.signature.over.body,
                       signature |-> token.signature]
        IN  /\ token.payload = NoBody
            /\ token.header = signed.header
            /\ signed.payload # NoBody
            /\ fullJws(last.payload) = signed

\* proveOwner returned a detached token over a payload with both attestation
\* hashes and a challenge that is not 0
C28_Witness ==
    /\ last.op = "proveOwner"
    /\ last.err = ""
    /\ last.payload.signedResponseToken.payload = NoBody
    /\ last.payload.signedResponseToken.signature # NoSignature
    /\ IsSet(last.payload.txHashAgentAttestation)
    /\ IsSet(last.payload.txHashOwnerAttestation)
    /\ last.payload.challenge # 0

\* C29: in sendDidAuthAttestation and sendOwnershipAttestation a
\* recordAttestation request is handed to the wallet only after
\* authenticateToAttestationRegistry has returned an id that is not zero in
\* the same invocation, and after every submitResponse request of that
\* invocation has come back with a receipt.
C29_AuthenticationPrecedesRecording ==
    \A i \in 1..Len(last.sent) :
        last.sent[i].method = "recordAttestation" =>
            /\ last.op \in {"proveDid", "proveOwner"}
            /\ last.authId # 0
            /\ \E c \in 1..Len(last.calls) :
                  last.calls[c] = Called("getIdByAddress", last.authId)
            /\ \A j \in 1..Len(last.sent) :
                  last.sent[j].method = "submitResponse" =>
                      /\ j < i
                      /\ last.sent[j].receipt \notin {"throw", "null"}

\* an invocation authenticated the agent with a transaction and then recorded
\* its ownership attestation
C29_Witness ==
    /\ last.op = "proveOwner"
    /\ Len(last.sent) = 2
    /\ last.sent[1].method = "submitResponse"
    /\ last.sent[2].method = "recordAttestation"
    /\ last.authId = last.resolved.id
    /\ last.err = ""

\* C30: getReviewAttestationsInfo fetches the pages strictly one after
\* another.  At most one request is outstanding, so page p + 1 is requested
\* only after page p has returned; the pages are requested in increasing
\* order, each once, and when the call returns every page of 1..totalPages
\* has been requested and answered; reviewCount is the number of records over
\* all pages, and averageStars is 0 when reviewCount is 0.
C30_PagesInSequence ==
    /\ Len(reviews.requested) - reviews.answered \in {0, 1}
    /\ reviews.pc = "waiting" => Len(reviews.requested) = reviews.answered + 1
    /\ \A i \in 1..Len(reviews.requested) : reviews.requested[i] = i
    /\ reviews.pc = "returned" =>
          /\ \A p \in 1..reviews.totalPages :
                Cardinality({i \in 1..Len(reviews.requested) :
                               reviews.requested[i] = p}) = 1
          /\ reviews.answered = Len(reviews.requested)
          /\ reviews.reviewCount = reviews.served
          /\ reviews.reviewCount = 0 => reviews.averageStars = 0

\* the call returned after fetching as many pages as the service can
\* announce, with reviews on them
C30_Witness ==
    /\ reviews.pc = "returned"
    /\ reviews.totalPages = MaxPages
    /\ reviews.requested = [i \in 1..MaxPages |-> i]
    /\ reviews.reviewCount > 0
    /\ reviews.averageStars > 0

\* C31: every non-empty txHashOwnerAttestation that proveOwner returns is the
\* hash of an owner attestation that passes the validation of setOwnership:
\* it is on chain, its agentId is the local identity's id and its ownerId is
\* the configured owner.
C31_OwnerHashWasValidated ==
    (last.op = "proveOwner" /\ last.err = ""
        /\ last.payload.txHashOwnerAttestation # "") =>
        LET h == last.payload.txHashOwnerAttestation
        IN  /\ h \in DOMAIN OwnerTxs
            /\ getOwnershipAttestationFromOwner(h).err = ""
            /\ getOwnershipAttestationFromOwner(h).agentId = last.resolved.id
            /\ getOwnershipAttestationFromOwner(h).ownerId = OwnerId

\* C32: whenever authenticateToAttestationRegistry returns normally, already
\* mapped or mapped after submitting the proof, the id it returns is the
\* agentId it was given; so a recordAttestation request is handed to the
\* wallet only while the registry maps the agent's address to the agent's id.
C32_AuthenticatedAsAgent ==
    (last.op \in {"proveDid", "proveOwner"} /\ last.authId # 0) =>
        /\ last.authId = last.resolved.id
        /\ SentBy("recordAttestation") # {} =>
              idByAddress[last.resolved.ethAddress] = last.resolved.id

\* C33: with no generateKeys call in between, the invocations of a serialized
\* execution hand at most one DID-auth recordAttestation request to the
\* wallet, also when proveDid fails and is invoked again.
C33_OneDidAuthAttestation ==
    Cardinality({i \in 1..Len(txs) : /\ txs[i].method = "recordAttestation"
                                      /\ txs[i].schema = "agentDidAuth"}) <= 1

\* C34: a generateKeys whose owner token checkOwnerAuthToken rejects (bad
\* signature, missing field, expired challenge) throws that error having
\* created no key, cleared no tracker field and sent nothing.
C34_NoChangeBeforeOwnerAuth ==
    (last.op = "generateKeys"
        /\ checkOwnerAuthToken(last.arg.tok, last.arg.at) # "") =>
        /\ last.err = checkOwnerAuthToken(last.arg.tok, last.arg.at)
        /\ keys = last.preKeys
        /\ ~last.created
        /\ TrackerAsBefore
        /\ last.sent = <<>>

\* a generateKeys on an expired token threw while the tracker held the hashes
\* of earlier proofs, which it still holds
C34_Witness ==
    /\ last.op = "generateKeys"
    /\ last.err = "Challenge is expired"
    /\ last.preDid # Undefined
    /\ last.preOwner # Undefined
    /\ txDidAuthAttestation = last.preDid
    /\ txOwnershipAttestationFromOwner = last.preOwner
    /\ keys # <<>>

\* C35: a generateKeys that fails, at whatever step, leaves the key store and
\* the three tracker fields exactly as they were before the call.
C35_GenerateKeysAtomicOnFailure ==
    (last.op = "generateKeys" /\ last.err # "") =>
        /\ keys = last.preKeys
        /\ TrackerAsBefore

\* C36: each operation writes its own tracker field only.  proveDid leaves
\* txOwnershipAttestationFromAgent and txOwnershipAttestationFromOwner as they
\* were, proveOwner txDidAuthAttestation and txOwnershipAttestationFromOwner,
\* setOwnership txDidAuthAttestation and txOwnershipAttestationFromAgent,
\* proveReputation all three; none of the four changes the key store.
C36_OwnFieldOnly ==
    (last.op \in ProofOps) =>
        /\ keys = last.preKeys
        /\ last.op # "proveDid" => txDidAuthAttestation = last.preDid
        /\ last.op # "proveOwner" =>
              txOwnershipAttestationFromAgent = last.preAgent
        /\ last.op # "setOwnership" =>
              txOwnershipAttestationFromOwner = last.preOwner

\* proveOwner recorded its attestation and wrote its field while the other
\* two fields held hashes
C36_Witness ==
    /\ last.op = "proveOwner"
    /\ last.err = ""
    /\ last.preAgent = Undefined
    /\ txOwnershipAttestationFromAgent # Undefined
    /\ last.preDid # Undefined
    /\ last.preOwner # Undefined
    /\ keys # <<>>

C38_ResponseCarriesTxHash ==
    (last.op = "proveDid" /\ last.err = ""
        /\ txDidAuthAttestation # Undefined) =>
        last.payload.txHash = txDidAuthAttestation


====
